---- MODULE Spec2Model ----
(***************************************************************************)
(* A model of the reindexer namespace engine and of the transaction        *)
(* bookkeeping of its RPC and HTTP servers.                                *)
(*                                                                         *)
(*   SpecNs    the namespace: Locker, item slots, free list, indexes, WAL, *)
(*             CommitTransaction                                           *)
(*   SpecOpt   the background optimizer against concurrent writers         *)
(*   SpecRpc   one RPC client: its transaction slot vector                 *)
(*   SpecHttp  the HTTP transaction map with idle deadlines and its reaper *)
(***************************************************************************)
EXTENDS Integers, Sequences, FiniteSets, TLC

\* ---------------------------------------------------------------- bounds
\* MaxWal caps the WAL length at which a write call may still start,
\* MaxSteps the number of steps staged in one transaction
MaxWal == 2
MaxSteps == 2

\* kMaxTxCount is 1024 in the source; the slot vector logic depends only on
\* the comparison with it, so a small value is used
kMaxTxCount == 2
\* txIdleTimeout_ in ticks of the deadline clock
txIdleTimeout_ == 2
\* MaxHttpSteps caps the steps staged in one HTTP transaction
MaxHttpSteps == 1

Threads == {1, 2}
TxIds == {1, 2}
DbNames == {"db1", "db2"}
Handlers == {1}
PKs == {1, 2}
Vals == {1, 2}
Fields == {"pk", "val"}
NoThread == 0

Modes == {"ModeInsert", "ModeUpsert", "ModeDelete"}
\* a Delete step carries only the primary key
StepSet == {s \in [mode : Modes, pk : PKs, val : Vals] : s.mode = "ModeDelete" => s.val = 1}
QueryModes == {"QueryUpdate", "QueryDelete"}
\* the steps staged in transactions: inserts write value 1, upserts value 2
TxStepSet == {s \in StepSet : (s.mode = "ModeInsert" => s.val = 1) /\ (s.mode = "ModeUpsert" => s.val = 2)}

\* the steps staged through the servers: one item step and one query step
SrvItemStep == [mode |-> "ModeInsert", pk |-> 1, val |-> 1]
SrvQueryStep == [mode |-> "QueryDelete", pk |-> 1, val |-> 1]

RECURSIVE SeqsUpTo(_, _)
SeqsUpTo(S, n) ==
  IF n = 0 THEN {<<>>}
  ELSE LET shorter == SeqsUpTo(S, n - 1)
       IN shorter \cup {Append(s, x) : s \in {q \in shorter : Len(q) = n - 1}, x \in S}

Max(a, b) == IF a >= b THEN a ELSE b

\* ------------------------------------------------------ namespace data
\* A row slot: PayloadValue, IsFree() for a recycled slot.
FreeItem == [free |-> TRUE, pk |-> 0, val |-> 0]
Payload(pk, val) == [free |-> FALSE, pk |-> pk, val |-> val]

\* Row ids are 0-based; items_[id] of the code is items[id + 1] here.
ItemAt(items, id) == items[id + 1]

\* Items::exists
exists(items, id) == id < Len(items) /\ ~ItemAt(items, id).free

EmptyIndex == [k \in PKs \cup Vals |-> {}]
EmptyIndexes == [f \in Fields |-> EmptyIndex]

KeyOf(pl, f) == IF f = "pk" THEN pl.pk ELSE pl.val

\* Index::Upsert(key, id) / Index::Delete(key, id) of a key -> IdSet index
IndexUpsert(ix, key, id) == [ix EXCEPT ![key] = @ \cup {id}]
IndexDeleteKeepsId(ix, key, id) == ix
IndexDelete(ix, key, id) == [ix EXCEPT ![key] = @ \ {id}]
\* Index::SelectKey(key, CondEq): the IdSet of a point query
SelectKey(ix, key) == ix[key]

\* findByPK: <<id, found>>
findByPK(D, pk) ==
  LET ids == SelectKey(D.indexes_["pk"], pk)
  IN IF ids = {} THEN <<-1, FALSE>> ELSE <<CHOOSE i \in ids : TRUE, TRUE>>

\* createItem: reuse the last free id or extend items_
createItemKeepsFree(D) ==
  IF Len(D.free_) > 0
  THEN [D EXCEPT !.newId = D.free_[Len(D.free_)]]
  ELSE [D EXCEPT !.items_ = Append(@, FreeItem), !.newId = Len(D.items_)]
createItem(D) ==
  IF Len(D.free_) > 0
  THEN [D EXCEPT !.free_ = SubSeq(@, 1, Len(@) - 1), !.newId = D.free_[Len(D.free_)]]
  ELSE [D EXCEPT !.items_ = Append(@, FreeItem), !.newId = Len(D.items_)]

\* doUpsert: for every index Delete(oldKey, id) then Upsert(newKey, id); write the slot
doUpsert(D, id, pl, doUpdate) ==
  LET old == ItemAt(D.items_, id)
      upd(f) == LET ix0 == D.indexes_[f]
                    ix1 == IF doUpdate THEN IndexDelete(ix0, KeyOf(old, f), id) ELSE ix0
                IN IndexUpsert(ix1, KeyOf(pl, f), id)
  IN [D EXCEPT !.indexes_ = [f \in Fields |-> upd(f)],
               !.items_ = [@ EXCEPT ![id + 1] = pl]]

\* doDelete: remove the row's keys from every index, free the slot, push the id to free_
doDelete(D, id) ==
  LET old == ItemAt(D.items_, id)
  IN [D EXCEPT !.indexes_ = [f \in Fields |-> IndexDelete(D.indexes_[f], KeyOf(old, f), id)],
               !.items_ = [@ EXCEPT ![id + 1] = FreeItem],
               !.free_ = Append(@, id)]

\* WALTracker::Add: the record gets the next LSN
walAddReusesLsn(D, type, inTx) ==
  [D EXCEPT !.wal_ = Append(@, [lsn |-> D.lsnCounter, type |-> type, inTransaction |-> inTx])]
walAdd(D, type, inTx) ==
  [D EXCEPT !.wal_ = Append(@, [lsn |-> D.lsnCounter, type |-> type, inTransaction |-> inTx]),
            !.lsnCounter = @ + 1]

\* markUpdated: sort orders are stale
markUpdated(D) == [D EXCEPT !.optimizationState_ = "NotOptimized"]

\* NsContext
NsContext == [noLock |-> FALSE, inTransaction |-> FALSE]
NoLock(ctx) == [ctx EXCEPT !.noLock = TRUE]
InTransactionDropped(ctx) == ctx
InTransaction(ctx) == [ctx EXCEPT !.inTransaction = TRUE]

\* modifyItem: the body of Insert/Upsert/Delete under the write lock.
\* The result carries err, the error of the call.
modifyItem(D0, step, ctx) ==
  LET D == [D0 EXCEPT !.err = "errOK"]
      found == findByPK(D, step.pk)
      id == found[1]
      pl == Payload(step.pk, step.val)
  IN IF step.mode = "ModeDelete"
     THEN IF found[2]
          THEN markUpdated(walAdd(doDelete(D, id), "WalItemModify", ctx.inTransaction))
          ELSE D
     ELSE IF step.mode = "ModeInsert" /\ found[2]
     THEN [D EXCEPT !.err = "errConflict"]
     ELSE IF found[2]
     THEN markUpdated(walAdd(doUpsert(D, id, pl, TRUE), "WalItemModify", ctx.inTransaction))
     ELSE LET C == createItem(D)
          IN markUpdated(walAdd(doUpsert(C, C.newId, pl, FALSE), "WalItemModify", ctx.inTransaction))

\* Update(query) / Delete(query) with the condition pk = step.pk:
\* UPDATE sets the value of the matching row, DELETE removes it
modifyQuery(D0, step, ctx) ==
  LET D == [D0 EXCEPT !.err = "errOK"]
      found == findByPK(D, step.pk)
      id == found[1]
  IN IF ~found[2] THEN D
     ELSE IF step.mode = "QueryDelete"
     THEN markUpdated(walAdd(doDelete(D, id), "WalUpdateQuery", ctx.inTransaction))
     ELSE markUpdated(walAdd(doUpsert(D, id, Payload(step.pk, step.val), TRUE),
                             "WalUpdateQuery", ctx.inTransaction))

\* Truncate: drop every row, the free list and every index entry
Truncate(D0) ==
  markUpdated(walAdd([D0 EXCEPT !.err = "errOK", !.items_ = <<>>, !.free_ = <<>>, !.indexes_ = EmptyIndexes],
                     "WalUpdateQuery", FALSE))


\* Transaction commit, piecewise: the Init record, one staged step, the Commit record
commitInit(D0) == walAdd([D0 EXCEPT !.err = "errOK"], "WalInitTransaction", TRUE)
commitStep(D, step) ==
  LET ctx == InTransaction(NoLock(NsContext))
  IN IF step.mode \in Modes THEN modifyItem(D, step, ctx) ELSE modifyQuery(D, step, ctx)
commitEnd(D) == walAdd(D, "WalCommitTransaction", TRUE)

\* CommitTransaction as one call: Init, the steps in order until one fails, Commit
RECURSIVE applySteps(_, _, _)
applySteps(D, steps, i) ==
  IF i > Len(steps) THEN D
  ELSE LET N == commitStep(D, steps[i])
       IN IF N.err # "errOK" THEN N ELSE applySteps(N, steps, i + 1)
CommitTransaction(D, steps) == commitEnd(applySteps(commitInit(D), steps, 1))

\* UpdateSortedIds: the live row ids ordered by (key of f, id)
RECURSIVE SortIds(_, _, _)
SortIds(items, f, ids) ==
  IF ids = {} THEN <<>>
  ELSE LET m == CHOOSE i \in ids : \A j \in ids :
                  \/ KeyOf(ItemAt(items, i), f) < KeyOf(ItemAt(items, j), f)
                  \/ KeyOf(ItemAt(items, i), f) = KeyOf(ItemAt(items, j), f) /\ i <= j
       IN <<m>> \o SortIds(items, f, ids \ {m})
LiveIds(items) == {i \in 0..(Len(items) - 1) : exists(items, i)}
SortedIds(items, f) == SortIds(items, f, LiveIds(items))

\* ------------------------------------------------------------ state
VARIABLES
  items_, free_, indexes_, wal_, lsnCounter,      \* NamespaceImpl data
  optimizationState_, sortOrders_, optPc, optBuilt, \* background optimizer
  mtxWriter, mtxReaders, readonly_,                \* Locker
  pc, call, res, roAtStart,                        \* the calling threads
  txDone,                                          \* CommitTransaction calls returned
  txs, txCount, rpcRet,                            \* RPCClientData, the last RPC reply
  txMap_, httpTx, httpDbs, hpc, hreq, httpLast,    \* HTTPServer
  storeT, opts_, str_map, idx_data, expiredStrings_, storeRefs, storeRet, \* IndexStore<T>
  flushedUpTo, storageWrites, flushRet, roSnapshot, \* storage flush
  clientData, loginRet, pushRet,                    \* RPC connection
  sysStorage, sysRecordsVersions_, sysPc, sysEver, sysLoaded, \* sys records
  cloneSt, cloneRet, destroyed,                     \* a second IndexStore<T>
  ftRet,                                            \* FuzzyIndexText<T>: the last Select
  callRet,                                          \* RPC dispatcher: the last command
  results,                                          \* RPCClientData::results: (QueryResults, in use)
  qrRet,                                            \* the last query-results call and its reply
  memInst,                                          \* an IndexStore<key_string> and its clone, with memStat_
  memRet,                                           \* the last call made on one of the two
  mpRet                                             \* the last MsgPack query response written

nsData == <<items_, free_, indexes_, wal_, lsnCounter>>
optVars == <<sortOrders_, optPc, optBuilt>>
lockVars == <<mtxWriter, mtxReaders, readonly_>>
thrVars == <<pc, call, res, roAtStart, txDone>>
nsVars == <<nsData, optimizationState_, optVars, lockVars, thrVars>>
rpcVars == <<txs, txCount, rpcRet>>
httpVars == <<txMap_, httpTx, httpDbs, hpc, hreq, httpLast>>
storeVars == <<storeT, opts_, str_map, idx_data, expiredStrings_, storeRefs, storeRet>>
storageVars == <<flushedUpTo, storageWrites, flushRet, roSnapshot>>
connVars == <<clientData, loginRet, pushRet>>
sysVars == <<sysStorage, sysRecordsVersions_, sysPc, sysEver, sysLoaded>>
cloneVars == <<cloneSt, cloneRet, destroyed>>
ftVars == <<ftRet>>
authVars == <<callRet>>
qrVars == <<results, qrRet>>
memVars == <<memInst, memRet>>
mpVars == <<mpRet>>
auxVars == <<storeVars, storageVars, connVars, sysVars, cloneVars, ftVars, authVars, qrVars, memVars, mpVars>>
srvVars == <<rpcVars, httpVars, auxVars>>
vars == <<nsVars, srvVars>>

NsD == [items_ |-> items_, free_ |-> free_, indexes_ |-> indexes_, wal_ |-> wal_,
        lsnCounter |-> lsnCounter, optimizationState_ |-> optimizationState_,
        err |-> "errOK", newId |-> -1]
SetNs(D) ==
  /\ items_' = D.items_
  /\ free_' = D.free_
  /\ indexes_' = D.indexes_
  /\ wal_' = D.wal_
  /\ lsnCounter' = D.lsnCounter
  /\ optimizationState_' = D.optimizationState_

NoCall == [steps |-> <<>>, next |-> 1]
nsRest == <<optVars, lockVars, thrVars>>

\* the reply of the last RPC call: its command, its error code, the returned
\* tx id, and the modes of the steps the transaction it ended had staged
NoReply == [cmd |-> "none", err |-> "errOK", id |-> -1, staged |-> {}]
Reply(cmd, err, id, staged) == [cmd |-> cmd, err |-> err, id |-> id, staged |-> staged]

\* HTTPServer: an empty Transaction object, an idle handler, no reply yet
NoTx == [state |-> "none", steps |-> <<>>]
NoReq == [txId |-> 0, dbName |-> "none"]
NoStatus == [op |-> "none", status |-> "errOK"]

NsInit ==
  /\ items_ = <<>>
  /\ free_ = <<>>
  /\ indexes_ = EmptyIndexes
  /\ wal_ = <<>>
  /\ lsnCounter = 1
  /\ optimizationState_ = "NotOptimized"
  /\ sortOrders_ = [f \in Fields |-> <<>>]
  /\ optPc = "idle"
  /\ optBuilt = {}
  /\ mtxWriter = NoThread
  /\ mtxReaders = {}
  /\ readonly_ = FALSE
  /\ pc = [t \in Threads |-> "idle"]
  /\ call = [t \in Threads |-> NoCall]
  /\ res = [t \in Threads |-> "none"]
  /\ roAtStart = [t \in Threads |-> FALSE]
  /\ txDone = 0

RpcInit ==
  /\ txs = <<>>
  /\ txCount = 0
  /\ rpcRet = NoReply

HttpInit ==
  /\ txMap_ = <<>>
  /\ httpTx = [id \in TxIds |-> NoTx]
  /\ httpDbs = DbNames
  /\ hpc = [h \in Handlers |-> "idle"]
  /\ hreq = [h \in Handlers |-> NoReq]
  /\ httpLast = NoStatus

\* ------------------------------------------------------ IndexStore<T>: data
\* bounds of the store model: references held by str_map, strings waiting in
\* expiredStrings_
MaxRefs == 2
MaxExpired == 1

\* the instantiations of the template: the key_string and PayloadValue
\* specialisations and the generic one
StoreTypes == {"key_string", "PayloadValue", "int"}
StrVals == {"a", "b"}
\* a string Variant is a value held by a string object; equal values can be
\* held by different objects
Objs == {1, 2}
StoreIds == {0, 1}
NullKey == [type |-> "KeyValueNull", val |-> "", obj |-> 0]
StrKey(v, o) == [type |-> "KeyValueString", val |-> v, obj |-> o]
StoreKeys == {NullKey} \cup {StrKey(v, o) : v \in StrVals, o \in Objs}
DefaultT == ""
IndexOpts == [array : BOOLEAN, dense : BOOLEAN, sparse : BOOLEAN]
PlainOpts == [array |-> FALSE, dense |-> FALSE, sparse |-> FALSE]
CondTypes == {"CondEq", "CondEmpty", "CondAny"}
SelectOpts == [distinct : BOOLEAN]
NoStoreRet == [op |-> "none", key |-> NullKey, id |-> 0, ret |-> NullKey, err |-> "errOK"]

StoreInit ==
  /\ storeT = "key_string"
  /\ opts_ = PlainOpts
  /\ str_map = <<>>
  /\ idx_data = <<>>
  /\ expiredStrings_ = <<>>
  /\ storeRefs = <<>>
  /\ storeRet = NoStoreRet

\* ------------------------------------------------------ storage flush: data
\* bound of the model: storage write attempts
MaxFlush == 2
NoSnapshot == [taken |-> FALSE, items_ |-> <<>>, indexes_ |-> EmptyIndexes]

StorageInit ==
  /\ flushedUpTo = 0
  /\ storageWrites = 0
  /\ flushRet = "none"
  /\ roSnapshot = NoSnapshot

\* ------------------------------------------------------ RPC connection: data
\* a connection without client data, a WAL record given to the pusher
NoClient == [logged |-> FALSE, rxVersion |-> <<>>, filter |-> FALSE]
WalTypes == {"WalItemModify", "WalUpdateQuery", "WalInitTransaction", "WalCommitTransaction",
             "WalSetSchema"}
WALRecords == [type : WalTypes, inTransaction : BOOLEAN]
NoPush == [filtered |-> FALSE, ret |-> FALSE, in |-> [type |-> "none", inTransaction |-> FALSE],
           out |-> [type |-> "none", inTransaction |-> FALSE]]

ConnInit ==
  /\ clientData = NoClient
  /\ loginRet = "none"
  /\ pushRet = NoPush

\* ------------------------------------------------------ sys records: data
\* bound of the model: versions of one sys-record tag
MaxSysVersion == 3
SysTags == {"indexes", "schema"}
SysData == {"d1", "d2"}
SysVersions == 1..MaxSysVersion
NoLoad == [tag |-> "none", version |-> 0, content |-> "none", err |-> "errOK"]

SysInit ==
  /\ sysStorage = [tag \in SysTags |-> [v \in SysVersions |-> "none"]]
  /\ sysRecordsVersions_ = [tag \in SysTags |-> 0]
  /\ sysPc = [tag \in SysTags |-> "idle"]
  /\ sysEver = [tag \in SysTags |-> FALSE]
  /\ sysLoaded = NoLoad

\* ------------------------------------------------ a second IndexStore<T>: data
\* no second instance; no instance destroyed yet
NoInstance == [alive |-> FALSE, T |-> "key_string", opts |-> PlainOpts, str_map |-> <<>>,
               idx_data |-> <<>>, expiredStrings_ |-> <<>>]
NotDestroyed == [any |-> FALSE, who |-> "none", expiredStrings_ |-> <<>>]

CloneInit ==
  /\ cloneSt = NoInstance
  /\ cloneRet = "none"
  /\ destroyed = NotDestroyed

\* --------------------------------------------------- FuzzyIndexText<T>: data
\* the documents of the index and, per document, the row ids of its key entry
FtDocs == {0, 1}
vdocs_ == [d \in FtDocs |-> IF d = 0 THEN <<1, 2>> ELSE <<3>>]
\* scores the engine gives, thresholds of the configuration
Procs == {10, 60, 120, 240}
MinOkProcs == {0, 50, 100}
NoSelect == [data |-> <<>>, max_proc_ |-> 0, minOkProc |-> 0, mergedIds |-> <<>>, ranks |-> <<>>]

FtInit == ftRet = NoSelect

\* ------------------------------------------------------ RPC dispatcher: data
Cmds == {"kCmdLogin", "kCmdPing", "kCmdModifyItem", "kCmdSelect", "kCmdStartTransaction",
         "kCmdCommitTx"}
NoCmd == [cmd |-> "none", err |-> "errOK", dispatched |-> FALSE, logged |-> FALSE]

AuthInit == callRet = NoCmd

\* ------------------------------------------------- RPC query results: data
\* cproto::kMaxConcurentQueries, scaled down: only the comparison with
\* results.size() depends on it
kMaxConcurentQueries == 2
\* bound of the model: rows one query can return
MaxCount == 2
\* a slot of results: a QueryResults (its row count) and the in-use flag
FreeSlot == [count |-> 0, used |-> FALSE]
NoQrRet == [op |-> "none", err |-> "errOK", what |-> "", reqId |-> -1, id |-> -1, sent |-> 0]

QrInit ==
  /\ results = <<>>
  /\ qrRet = NoQrRet

\* -------------------------------------- IndexStore<key_string> memStat_: data
\* sizeof(unordered_str_map<int>::value_type), sizeof(vector<key_string>::value_type)
\* and sizeof(base_key_string), in units of 8 bytes
sizeofMapValue == 2
sizeofVectorValue == 1
sizeofKeyString == 5
\* bound of the model: Clone calls in one run
MaxClones == 1
Instances == {"source", "clone"}
\* a constructed IndexStore<key_string>: memStat_.dataSize and
\* expiredStringsMemStat_ start at 0
NewMemInst == [alive |-> TRUE, str_map |-> <<>>, expiredStrings_ |-> <<>>,
               dataSize |-> 0, expiredStringsMemStat_ |-> 0]
NoMemInst == [NewMemInst EXCEPT !.alive = FALSE]
NoMemRet == [op |-> "none", who |-> "source", clones |-> 0]

MemInit ==
  /\ memInst = [source |-> NewMemInst, clone |-> NoMemInst]
  /\ memRet = NoMemRet

\* ------------------------------------------- HTTP MsgPack query response: data
\* INT_MAX of a scaled int; unsigned is one bit wider than its positive
\* range and size_t twice as wide as unsigned
IntMax == 7
UIntMod == 2 * (IntMax + 1)
SizeMod == UIntMod * UIntMod
\* bound of the model: rows of a result
MaxRows == 3
\* a request parameter: absent (length 0) or the text of an integer
Params == {[length |-> 0, n |-> 0]} \cup {[length |-> 1, n |-> k] : k \in -1..IntMax}
NoMpRet == [op |-> "none", limit |-> 0, offset |-> 0, count |-> 0, declared |-> 0, items |-> <<>>]

MpInit == mpRet = NoMpRet

Init ==
  /\ NsInit /\ RpcInit /\ HttpInit /\ StoreInit /\ StorageInit /\ ConnInit /\ SysInit
  /\ CloneInit /\ FtInit /\ AuthInit /\ QrInit /\ MemInit /\ MpInit

\* ------------------------------------------------------------ Locker
\* A thread calls a mutating operation, which starts with wLock(ctx); roAtStart
\* remembers whether MarkReadOnly had completed before the acquisition started
BeginWrite(t) ==
  /\ pc[t] = "idle"
  /\ Len(wal_) < MaxWal
  /\ pc' = [pc EXCEPT ![t] = "wlock"]
  /\ roAtStart' = [roAtStart EXCEPT ![t] = readonly_]
  /\ res' = [res EXCEPT ![t] = "none"]
  /\ UNCHANGED <<nsData, optimizationState_, optVars, lockVars, call, txDone, srvVars>>

\* WLockT lck(mtx_, &ctx): exclusive acquisition of the shared mutex
WLockAcquireNotExclusive(t) ==
  /\ pc[t] = "wlock"
  /\ mtxWriter' = t
  /\ pc' = [pc EXCEPT ![t] = "wcheck"]
  /\ UNCHANGED <<nsData, optimizationState_, optVars, mtxReaders, readonly_, call, res, roAtStart, txDone, srvVars>>
WLockAcquire(t) ==
  /\ pc[t] = "wlock"
  /\ mtxWriter = NoThread
  /\ mtxReaders = {}
  /\ mtxWriter' = t
  /\ pc' = [pc EXCEPT ![t] = "wcheck"]
  /\ UNCHANGED <<nsData, optimizationState_, optVars, mtxReaders, readonly_, call, res, roAtStart, txDone, srvVars>>

\* if (readonly_.load()) throw Error(errNamespaceInvalidated): the unwinding
\* destroys lck and so unlocks mtx_; otherwise the lock is returned to the caller
WLockCheckKeepsMutex(t) ==
  /\ pc[t] = "wcheck"
  /\ IF readonly_
     THEN /\ res' = [res EXCEPT ![t] = "errNamespaceInvalidated"]
          /\ pc' = [pc EXCEPT ![t] = "idle"]
          /\ roAtStart' = [roAtStart EXCEPT ![t] = FALSE]
     ELSE /\ pc' = [pc EXCEPT ![t] = "cs"]
          /\ roAtStart' = [roAtStart EXCEPT ![t] = FALSE]
          /\ res' = res
  /\ UNCHANGED <<nsData, optimizationState_, optVars, lockVars, call, txDone, srvVars>>
WLockCheckSkipsFlag(t) ==
  /\ pc[t] = "wcheck"
  /\ pc' = [pc EXCEPT ![t] = "cs"]
  /\ roAtStart' = [roAtStart EXCEPT ![t] = FALSE]
  /\ UNCHANGED <<res, mtxWriter>>
  /\ UNCHANGED <<nsData, optimizationState_, optVars, mtxReaders, readonly_, call, txDone, srvVars>>
WLockCheck(t) ==
  /\ pc[t] = "wcheck"
  /\ IF readonly_
     THEN /\ res' = [res EXCEPT ![t] = "errNamespaceInvalidated"]
          /\ mtxWriter' = NoThread
          /\ pc' = [pc EXCEPT ![t] = "idle"]
          /\ roAtStart' = [roAtStart EXCEPT ![t] = FALSE]
     ELSE /\ pc' = [pc EXCEPT ![t] = "cs"]
          /\ roAtStart' = [roAtStart EXCEPT ![t] = FALSE]
          /\ UNCHANGED <<res, mtxWriter>>
  /\ UNCHANGED <<nsData, optimizationState_, optVars, mtxReaders, readonly_, call, txDone, srvVars>>

\* RLockT(mtx_, &ctx): shared acquisition; the read-only flag is not looked at
RLockChecksReadOnly(t) ==
  /\ pc[t] = "idle"
  /\ mtxWriter = NoThread
  /\ ~readonly_
  /\ mtxReaders' = mtxReaders \cup {t}
  /\ pc' = [pc EXCEPT ![t] = "reading"]
  /\ res' = [res EXCEPT ![t] = "none"]
  /\ UNCHANGED <<nsData, optimizationState_, optVars, mtxWriter, readonly_, call, roAtStart, txDone, srvVars>>
RLock(t) ==
  /\ pc[t] = "idle"
  /\ mtxWriter = NoThread
  /\ mtxReaders' = mtxReaders \cup {t}
  /\ pc' = [pc EXCEPT ![t] = "reading"]
  /\ res' = [res EXCEPT ![t] = "none"]
  /\ UNCHANGED <<nsData, optimizationState_, optVars, mtxWriter, readonly_, call, roAtStart, txDone, srvVars>>

\* the read ends and its RLockT is destroyed
EndRead(t) ==
  /\ pc[t] = "reading"
  /\ mtxReaders' = mtxReaders \ {t}
  /\ pc' = [pc EXCEPT ![t] = "idle"]
  /\ res' = [res EXCEPT ![t] = "errOK"]
  /\ UNCHANGED <<nsData, optimizationState_, optVars, mtxWriter, readonly_, call, roAtStart, txDone, srvVars>>

\* Locker::MarkReadOnly: an atomic store, no lock taken
MarkReadOnly ==
  /\ ~readonly_
  /\ readonly_' = TRUE
  /\ UNCHANGED <<nsData, optimizationState_, optVars, mtxWriter, mtxReaders, thrVars, srvVars>>

\* the WLockT of a finished write call is destroyed
Unlock(t) == mtxWriter' = (IF mtxWriter = t THEN NoThread ELSE mtxWriter)

\* ------------------------------------------------- write critical sections
\* Insert / Upsert / Delete of one item: modifyItem under the lock, then unlock
ModifyItem(t) ==
  /\ pc[t] = "cs"
  /\ \E step \in StepSet :
       LET D == modifyItem(NsD, step, NsContext)
       IN /\ SetNs(D)
          /\ res' = [res EXCEPT ![t] = D.err]
  /\ Unlock(t)
  /\ pc' = [pc EXCEPT ![t] = "idle"]
  /\ UNCHANGED <<optVars, mtxReaders, readonly_, call, roAtStart, txDone, srvVars>>

DoTruncate(t) ==
  /\ pc[t] = "cs"
  /\ LET D == Truncate(NsD)
     IN /\ SetNs(D)
        /\ res' = [res EXCEPT ![t] = D.err]
  /\ Unlock(t)
  /\ pc' = [pc EXCEPT ![t] = "idle"]
  /\ UNCHANGED <<optVars, mtxReaders, readonly_, call, roAtStart, txDone, srvVars>>

\* CommitTransaction(tx): Init record, the staged steps in order until one
\* fails, the Commit record, unlock. tx.GetSteps() is the call's input.
CommitInit(t) ==
  /\ pc[t] = "cs"
  /\ \E ss \in SeqsUpTo(TxStepSet, MaxSteps) :
       call' = [call EXCEPT ![t] = [steps |-> ss, next |-> 1]]
  /\ SetNs(commitInit(NsD))
  /\ pc' = [pc EXCEPT ![t] = "txsteps"]
  /\ UNCHANGED <<optVars, lockVars, res, roAtStart, txDone, srvVars>>

CommitStep(t) ==
  /\ pc[t] = "txsteps"
  /\ call[t].next <= Len(call[t].steps)
  /\ LET D == commitStep(NsD, call[t].steps[call[t].next])
     IN /\ SetNs(D)
        /\ IF D.err = "errOK"
           THEN /\ call' = [call EXCEPT ![t].next = @ + 1]
                /\ UNCHANGED <<res, pc>>
           ELSE /\ res' = [res EXCEPT ![t] = D.err]
                /\ pc' = [pc EXCEPT ![t] = "txcommit"]
                /\ call' = call
  /\ UNCHANGED <<optVars, lockVars, roAtStart, txDone, srvVars>>

CommitStepsDone(t) ==
  /\ pc[t] = "txsteps"
  /\ call[t].next > Len(call[t].steps)
  /\ pc' = [pc EXCEPT ![t] = "txcommit"]
  /\ res' = [res EXCEPT ![t] = "errOK"]
  /\ UNCHANGED <<nsData, optimizationState_, optVars, lockVars, call, roAtStart, txDone, srvVars>>

CommitEnd(t) ==
  /\ pc[t] = "txcommit"
  /\ SetNs(commitEnd(NsD))
  /\ Unlock(t)
  /\ pc' = [pc EXCEPT ![t] = "idle"]
  /\ call' = [call EXCEPT ![t] = NoCall]
  /\ txDone' = txDone + 1
  /\ UNCHANGED <<optVars, mtxReaders, readonly_, res, roAtStart, srvVars>>

NsNext ==
  \/ \E t \in Threads : BeginWrite(t)
  \/ \E t \in Threads : WLockAcquire(t)
  \/ \E t \in Threads : WLockCheck(t)
  \/ \E t \in Threads : RLock(t)
  \/ \E t \in Threads : EndRead(t)
  \/ MarkReadOnly
  \/ \E t \in Threads : ModifyItem(t)
  \/ \E t \in Threads : DoTruncate(t)
  \/ \E t \in Threads : CommitInit(t)
  \/ \E t \in Threads : CommitStep(t)
  \/ \E t \in Threads : CommitStepsDone(t)
  \/ \E t \in Threads : CommitEnd(t)

SpecNs == Init /\ [][NsNext]_vars


\* ------------------------------------------------- background optimizer
\* enum OptimizationState, in the order of its values
OptimizationStateSwapped ==
  <<"NotOptimized", "OptimizingSortOrders", "OptimizingIndexes", "OptimizationCompleted">>
OptimizationState ==
  <<"NotOptimized", "OptimizingIndexes", "OptimizingSortOrders", "OptimizationCompleted">>

\* SortOrdersBuilt: what a read checks before it uses the sort orders
SortOrdersBuiltWhileBuilding ==
  optimizationState_ \in {"OptimizingSortOrders", "OptimizationCompleted"}
SortOrdersBuilt == optimizationState_ = "OptimizationCompleted"

\* a writer mutates the namespace; the optimizer takes no lock against it
OptWrite ==
  /\ Len(wal_) < MaxWal
  /\ \E step \in StepSet : SetNs(modifyItem(NsD, step, NsContext))
  /\ UNCHANGED <<nsRest, srvVars>>

\* optimizeIndexes starts when the sort orders are stale
OptStart ==
  /\ optPc = "idle"
  /\ optimizationState_ = "NotOptimized"
  /\ optimizationState_' = "OptimizingIndexes"
  /\ optPc' = "indexes"
  /\ optBuilt' = {}
  /\ UNCHANGED <<nsData, sortOrders_, lockVars, thrVars, srvVars>>

\* the indexes are committed; CAS OptimizingIndexes -> OptimizingSortOrders
OptCommitIndexes ==
  /\ optPc = "indexes"
  /\ IF optimizationState_ = "OptimizingIndexes"
     THEN /\ optimizationState_' = "OptimizingSortOrders"
          /\ optPc' = "sortorders"
     ELSE /\ optPc' = "idle"
          /\ UNCHANGED optimizationState_
  /\ UNCHANGED <<nsData, sortOrders_, optBuilt, lockVars, thrVars, srvVars>>

\* the sort order of one more index is built from the rows as they are now
OptSortStep ==
  /\ optPc = "sortorders"
  /\ \E f \in Fields \ optBuilt :
       /\ sortOrders_' = [sortOrders_ EXCEPT ![f] = SortedIds(items_, f)]
       /\ optBuilt' = optBuilt \cup {f}
  /\ UNCHANGED <<nsData, optimizationState_, optPc, lockVars, thrVars, srvVars>>

\* cooperative cancellation: the build sees that it was invalidated and stops
OptCancel ==
  /\ optPc = "sortorders"
  /\ optimizationState_ = "NotOptimized"
  /\ optPc' = "idle"
  /\ UNCHANGED <<nsData, optimizationState_, sortOrders_, optBuilt, lockVars, thrVars, srvVars>>

\* every sort order is built; CAS OptimizingSortOrders -> OptimizationCompleted
OptFinish ==
  /\ optPc = "sortorders"
  /\ optBuilt = Fields
  /\ IF optimizationState_ = "OptimizingSortOrders"
     THEN optimizationState_' = "OptimizationCompleted"
     ELSE UNCHANGED optimizationState_
  /\ optPc' = "idle"
  /\ UNCHANGED <<nsData, sortOrders_, optBuilt, lockVars, thrVars, srvVars>>

OptNext ==
  \/ OptWrite
  \/ OptStart
  \/ OptCommitIndexes
  \/ OptSortStep
  \/ OptCancel
  \/ OptFinish

SpecOpt == Init /\ [][OptNext]_vars
\* the optimizer with the background routine running on: each of its steps
\* is taken when it stays possible
SpecOptLive ==
  /\ SpecOpt
  /\ WF_vars(OptStart) /\ WF_vars(OptCommitIndexes) /\ WF_vars(OptSortStep)
  /\ WF_vars(OptCancel) /\ WF_vars(OptFinish)

\* ------------------------------------------------------------ RPC server
\* Transaction: free (default constructed) or holding its staged steps
FreeTx == [free |-> TRUE, steps |-> <<>>]
NewTransaction == [free |-> FALSE, steps |-> <<>>]
IsFree(tx) == tx.free
TxModify(tx, step) == [tx EXCEPT !.steps = Append(@, step)]
StagedModes(tx) == {tx.steps[i].mode : i \in DOMAIN tx.steps}

\* RollBackTransaction: the staged steps are dropped, none is applied
RollBackTransaction(D, tx) == [D EXCEPT !.err = "errOK"]

\* tx ids are 0-based; txs[id] of the code is txs[id + 1] here
TxAt(v, id) == v[id + 1]

\* getTx: size_t(id) >= txs.size() || txs[id].IsFree() is "Invalid tx id";
\* a negative id converts to a huge size_t
validTx(v, id) == id >= 0 /\ id < Len(v) /\ ~IsFree(TxAt(v, id))

\* the loop of addTx: the first free slot or -1
firstFreeTx(v) ==
  IF \E i \in DOMAIN v : IsFree(v[i])
  THEN (CHOOSE i \in DOMAIN v : IsFree(v[i]) /\ \A j \in DOMAIN v : IsFree(v[j]) => i <= j) - 1
  ELSE -1

\* addTx; nsOk is whether db.NewTransaction(nsName) has an ok status
addTxNoLimit(v, cnt, nsOk) ==
  LET id == firstFreeTx(v)
  IN IF Len(v) > kMaxTxCount /\ id < 0
     THEN [txs |-> v, txCount |-> cnt, err |-> "errForbidden", id |-> -1]
     ELSE IF ~nsOk
     THEN [txs |-> v, txCount |-> cnt, err |-> "errNotFound", id |-> -1]
     ELSE IF id >= 0
     THEN [txs |-> [v EXCEPT ![id + 1] = NewTransaction], txCount |-> cnt + 1, err |-> "errOK", id |-> id]
     ELSE [txs |-> Append(v, NewTransaction), txCount |-> cnt + 1, err |-> "errOK", id |-> Len(v)]
addTxCountsFirst(v, cnt, nsOk) ==
  LET id == firstFreeTx(v)
  IN IF Len(v) >= kMaxTxCount /\ id < 0
     THEN [txs |-> v, txCount |-> cnt, err |-> "errForbidden", id |-> -1]
     ELSE IF ~nsOk
     THEN [txs |-> v, txCount |-> cnt + 1, err |-> "errNotFound", id |-> -1]
     ELSE IF id >= 0
     THEN [txs |-> [v EXCEPT ![id + 1] = NewTransaction], txCount |-> cnt + 1, err |-> "errOK", id |-> id]
     ELSE [txs |-> Append(v, NewTransaction), txCount |-> cnt + 1, err |-> "errOK", id |-> Len(v)]
addTx(v, cnt, nsOk) ==
  LET id == firstFreeTx(v)
  IN IF Len(v) >= kMaxTxCount /\ id < 0
     THEN [txs |-> v, txCount |-> cnt, err |-> "errForbidden", id |-> -1]
     ELSE IF ~nsOk
     THEN [txs |-> v, txCount |-> cnt, err |-> "errNotFound", id |-> -1]
     ELSE IF id >= 0
     THEN [txs |-> [v EXCEPT ![id + 1] = NewTransaction], txCount |-> cnt + 1, err |-> "errOK", id |-> id]
     ELSE [txs |-> Append(v, NewTransaction), txCount |-> cnt + 1, err |-> "errOK", id |-> Len(v)]

\* clearTx, called with an id that getTx accepted
clearTxKeepsSlot(txId) ==
  /\ txCount' = txCount - 1
  /\ txs' = txs
clearTx(txId) ==
  /\ txCount' = txCount - 1
  /\ txs' = [txs EXCEPT ![txId + 1] = FreeTx]

RpcTxIds == -1..kMaxTxCount

RpcStartTransaction ==
  \E nsOk \in BOOLEAN :
    LET r == addTx(txs, txCount, nsOk)
    IN /\ txs' = r.txs
       /\ txCount' = r.txCount
       /\ rpcRet' = Reply("StartTransaction", r.err, r.id, {})
       /\ UNCHANGED <<nsVars, httpVars, auxVars>>

\* the item formats of the wire, the state tokens of tags matchers, the
\* results a decoder (FromJSON, FromCJSON, FromMsgPack) can give
Formats == {"FormatJson", "FormatCJson", "FormatMsgPack", "FormatUnknown"}
Tokens == {1, 2}
\* the state token of the namespace's tags matcher
NsToken == CHOOSE t \in Tokens : TRUE
DecodeErrs == {"errOK", "errParseJson", "errTagsMissmatch"}
ItemStatuses == {"errOK", "errNotFound"}

\* NewItem: an item bound to the namespace's current tags matcher, whose
\* state token it carries
NewItem(nsToken, status) == [stateToken |-> nsToken, status |-> status]

\* RPCServer::processTxItem; dec is what the decoder answers when it is run
processTxItemSkipsToken(format, item, stateToken, dec) ==
  IF format = "FormatUnknown" THEN [err |-> "errInvalidFormat", decoded |-> 0]
  ELSE [err |-> dec, decoded |-> 1]
processTxItem(format, item, stateToken, dec) ==
  CASE format = "FormatJson" -> [err |-> dec, decoded |-> 1]
    [] format = "FormatCJson" ->
         IF item.stateToken # stateToken
         THEN [err |-> "errStateInvalidated", decoded |-> 0]
         ELSE [err |-> dec, decoded |-> 1]
    [] format = "FormatMsgPack" -> [err |-> dec, decoded |-> 1]
    [] OTHER -> [err |-> "errInvalidFormat", decoded |-> 0]

\* RPCServer::AddTxItem after getTx: the transaction as left by the call, the
\* error returned, the decoder runs and the fresh items taken from the namespace
AddTxItemNoRetry(tr, format, stateToken, nsToken, st, dec) ==
  LET item == NewItem(nsToken, st[1])
      r1 == processTxItem(format, item, stateToken, dec[1])
  IN  IF item.status # "errOK"
      THEN [tr |-> tr, err |-> item.status, itemOk |-> FALSE, decodes |-> 0, fresh |-> 0]
      ELSE IF r1.err # "errOK"
      THEN [tr |-> tr, err |-> r1.err, itemOk |-> TRUE, decodes |-> r1.decoded, fresh |-> 0]
      ELSE [tr |-> TxModify(tr, SrvItemStep), err |-> "errOK", itemOk |-> TRUE,
            decodes |-> r1.decoded, fresh |-> 0]
AddTxItem(tr, format, stateToken, nsToken, st, dec) ==
  LET item == NewItem(nsToken, st[1])
      r1 == processTxItem(format, item, stateToken, dec[1])
      item2 == NewItem(nsToken, st[2])
      r2 == processTxItem(format, item2, stateToken, dec[2])
  IN  IF item.status # "errOK"
      THEN [tr |-> tr, err |-> item.status, itemOk |-> FALSE, decodes |-> 0, fresh |-> 0]
      ELSE IF r1.err = "errTagsMissmatch"
      THEN IF item2.status # "errOK"
           THEN [tr |-> tr, err |-> item2.status, itemOk |-> TRUE,
                 decodes |-> r1.decoded, fresh |-> 1]
           ELSE IF r2.err # "errOK"
           THEN [tr |-> tr, err |-> r2.err, itemOk |-> TRUE,
                 decodes |-> r1.decoded + r2.decoded, fresh |-> 1]
           ELSE [tr |-> TxModify(tr, SrvItemStep), err |-> "errOK", itemOk |-> TRUE,
                 decodes |-> r1.decoded + r2.decoded, fresh |-> 1]
      ELSE IF r1.err # "errOK"
      THEN [tr |-> tr, err |-> r1.err, itemOk |-> TRUE, decodes |-> r1.decoded, fresh |-> 0]
      ELSE [tr |-> TxModify(tr, SrvItemStep), err |-> "errOK", itemOk |-> TRUE,
            decodes |-> r1.decoded, fresh |-> 0]

\* the inputs of one AddTxItem and what the environment answers: the status
\* of the item of the transaction, the result of its decode and, for the
\* retry, the same of the fresh item; inputs that are never looked at and
\* answers that are never asked for are fixed
AddTxItemCalls ==
  {c \in [format : Formats, stateToken : Tokens,
          st : [1..2 -> ItemStatuses], dec : [1..2 -> DecodeErrs]] :
     LET asked == c.st[1] = "errOK" /\ c.format # "FormatUnknown"
                    /\ (c.format = "FormatCJson" => c.stateToken = NsToken)
     IN  /\ c.format # "FormatCJson" => c.stateToken = NsToken
         /\ ~asked => c.dec[1] = "errOK"
         /\ c.dec[1] # "errTagsMissmatch" => (c.st[2] = "errOK" /\ c.dec[2] = "errOK")
         /\ c.st[2] # "errOK" => c.dec[2] = "errOK"}

\* AddTxItem: getTx throws for an invalid id, then the body above
AddTxItemWith(txId, c) ==
  /\ IF ~validTx(txs, txId)
     THEN /\ rpcRet' = Reply("AddTxItem", "errLogic", -1, {})
          /\ UNCHANGED txs
     ELSE LET r == AddTxItem(TxAt(txs, txId), c.format, c.stateToken, NsToken, c.st, c.dec)
          IN  /\ Len(r.tr.steps) <= MaxSteps
              /\ txs' = [txs EXCEPT ![txId + 1] = r.tr]
              /\ rpcRet' = Reply("AddTxItem", r.err, -1, {})
  /\ UNCHANGED <<txCount, nsVars, httpVars, auxVars>>
RpcAddTxItem == \E txId \in RpcTxIds, c \in AddTxItemCalls : AddTxItemWith(txId, c)

\* the execution timeout left after NewItem, as ModifyItem computes it:
\* execTimeout -= (beginT - now)
TimeoutCases == {<<0, 0>>, <<1, 1>>}
timeoutLeft(execTimeout, elapsed) == execTimeout - (0 - elapsed)
PreceptCases == {"none", "precepts", "preceptsRegisterFails"}
SrvModes == {s \in StepSet : s.pk = 1 /\ s.val = 1}

\* RPCServer::ModifyItem: the namespace as left by the call, the error
\* returned, the decoder runs, and the timeout given to the Insert, Update,
\* Upsert or Delete call (-1 when the handler returned before it)
RPCServerModifyItem(D, c) ==
  LET item == NewItem(c.nsToken, c.st)
      left == IF c.timeout[1] > 0 THEN timeoutLeft(c.timeout[1], c.timeout[2])
              ELSE c.timeout[1]
      r == processTxItem(c.format, item, c.stateToken, c.dec)
      D2 == modifyItem(D, c.step, NsContext)
  IN  IF c.timeout[1] > 0 /\ left <= 0
      THEN [D |-> D, err |-> "errCanceled", itemOk |-> TRUE, decodes |-> 0, tmo |-> -1]
      ELSE IF item.status # "errOK"
      THEN [D |-> D, err |-> item.status, itemOk |-> FALSE, decodes |-> 0, tmo |-> -1]
      ELSE IF r.err # "errOK"
      THEN [D |-> D, err |-> r.err, itemOk |-> TRUE, decodes |-> r.decoded, tmo |-> -1]
      ELSE IF c.precepts = "preceptsRegisterFails"
      THEN [D |-> D, err |-> "errLogic", itemOk |-> TRUE, decodes |-> r.decoded, tmo |-> -1]
      ELSE IF D2.err # "errOK"
      THEN [D |-> D2, err |-> D2.err, itemOk |-> TRUE, decodes |-> r.decoded, tmo |-> left]
      ELSE [D |-> D2, err |-> IF c.sendOk THEN "errOK" ELSE "errNetwork",
            itemOk |-> TRUE, decodes |-> r.decoded, tmo |-> left]

\* the inputs of one ModifyItem and what the environment answers; answers
\* that are never asked for are fixed
ModifyItemCalls ==
  {c \in [format : Formats, stateToken : Tokens, nsToken : {NsToken}, st : ItemStatuses,
          dec : DecodeErrs, step : SrvModes, timeout : TimeoutCases,
          precepts : PreceptCases, sendOk : BOOLEAN] :
     /\ c.st # "errOK" => c.dec = "errOK"
     /\ (c.st # "errOK" \/ c.dec # "errOK") =>
          (c.step = SrvItemStep /\ c.precepts = "none" /\ c.sendOk)
     /\ c.precepts = "preceptsRegisterFails" => c.sendOk}

RpcModifyItem ==
  \E c \in ModifyItemCalls :
    /\ Len(wal_) < MaxWal
    /\ LET r == RPCServerModifyItem(NsD, c)
       IN  /\ SetNs(r.D)
           /\ rpcRet' = Reply("ModifyItem", r.err, -1, {})
    /\ UNCHANGED <<txs, txCount, nsRest, httpVars, auxVars>>

\* DeleteQueryTx (UpdateQueryTx is the same with query.type_ = QueryUpdate)
DeleteQueryTxWith(txId) ==
  /\ IF ~validTx(txs, txId)
     THEN /\ rpcRet' = Reply("DeleteQueryTx", "errLogic", -1, {})
          /\ UNCHANGED txs
     ELSE /\ Len(TxAt(txs, txId).steps) < MaxSteps
          /\ txs' = [txs EXCEPT ![txId + 1] = TxModify(@, SrvQueryStep)]
          /\ rpcRet' = Reply("DeleteQueryTx", "errOK", -1, {})
  /\ UNCHANGED <<txCount, nsVars, httpVars, auxVars>>
RpcDeleteQueryTx == \E txId \in RpcTxIds : DeleteQueryTxWith(txId)

\* CommitTx: getTx, db.CommitTransaction, sendResults when it was ok, clearTx
CommitTxWith(txId, sendOk) ==
  /\ Len(wal_) < MaxWal
  /\ IF ~validTx(txs, txId)
     THEN /\ rpcRet' = Reply("CommitTx", "errLogic", -1, {})
          /\ UNCHANGED <<txs, txCount, nsData, optimizationState_>>
     ELSE LET tr == TxAt(txs, txId)
              D == CommitTransaction(NsD, tr.steps)
              err == IF D.err # "errOK" THEN D.err
                     ELSE IF sendOk THEN "errOK" ELSE "errNetwork"
          IN /\ SetNs(D)
             /\ clearTx(txId)
             /\ rpcRet' = Reply("CommitTx", err, -1, StagedModes(tr))
  /\ UNCHANGED <<nsRest, httpVars, auxVars>>
RpcCommitTx == \E txId \in RpcTxIds, sendOk \in BOOLEAN : CommitTxWith(txId, sendOk)

\* RollbackTx: getTx, db.RollBackTransaction (ret: the status it reports),
\* clearTx
RpcRollbackTxCommits ==
  \E txId \in RpcTxIds :
    /\ IF ~validTx(txs, txId)
       THEN /\ rpcRet' = Reply("RollbackTx", "errLogic", -1, {})
            /\ UNCHANGED <<txs, txCount, nsData, optimizationState_>>
       ELSE LET tr == TxAt(txs, txId)
                D == CommitTransaction(NsD, tr.steps)
            IN /\ SetNs(D)
               /\ clearTx(txId)
               /\ rpcRet' = Reply("RollbackTx", "errOK", -1, StagedModes(tr))
    /\ UNCHANGED <<nsRest, httpVars, auxVars>>
RollbackTxWith(txId, ret) ==
  /\ IF ~validTx(txs, txId)
     THEN /\ rpcRet' = Reply("RollbackTx", "errLogic", -1, {})
          /\ UNCHANGED <<txs, txCount, nsData, optimizationState_>>
     ELSE LET tr == TxAt(txs, txId)
              D == RollBackTransaction(NsD, tr)
          IN /\ SetNs(D)
             /\ clearTx(txId)
             /\ rpcRet' = Reply("RollbackTx", IF D.err # "errOK" THEN D.err ELSE ret,
                                -1, StagedModes(tr))
  /\ UNCHANGED <<nsRest, httpVars, auxVars>>
RollbackRets == {"errOK", "errConflict"}
RpcRollbackTx == \E txId \in RpcTxIds, ret \in RollbackRets : RollbackTxWith(txId, ret)

RpcNext ==
  \/ RpcStartTransaction
  \/ RpcAddTxItem
  \/ RpcDeleteQueryTx
  \/ RpcCommitTx
  \/ RpcRollbackTx

SpecRpc == Init /\ [][RpcNext]_vars

\* the item calls of one client: direct modifications and a transaction
\* being filled
RpcItemNext ==
  \/ RpcStartTransaction
  \/ RpcAddTxItem
  \/ RpcModifyItem
  \/ RpcRollbackTx

SpecRpcItem == Init /\ [][RpcItemNext]_vars

\* ----------------------------------------------------------- HTTP server
\* txMap_ maps a tx id to TxInfo {tx, dbName, txDeadline}. The Transaction
\* object that TxInfo::tx points to is httpTx[id]. txDeadline is kept
\* relative to the deadline clock: it holds txDeadline - now, so that
\* "txDeadline <= now" reads "txDeadline <= 0"; deadlines that lie further
\* in the past than now are kept at 0.
TxInfo(dbName) == [dbName |-> dbName, txDeadline |-> txIdleTimeout_]
mapErase(m, ids) == [i \in (DOMAIN m) \ ids |-> m[i]]
mapEmplace(m, id, info) == [i \in (DOMAIN m) \cup {id} |-> IF i = id THEN info ELSE m[i]]
Status(op, st) == [op |-> op, status |-> st]

\* the namespace of the model lives in TrackedDb; the other databases can be
\* dropped and created again
TrackedDb == "db1"

\* a Transaction object: begun, committed or rolled back
ActiveTx == [state |-> "active", steps |-> <<>>]
txCommitted(tx) == [state |-> "committed", steps |-> <<>>]
txRolledBack(tx) == [state |-> "rolledback", steps |-> <<>>]

\* a request handler still holds the shared_ptr it got from getTx
held(id) == \E h \in Handlers : hpc[h] # "idle" /\ hreq[h].txId = id

\* dbMgr_.OpenDatabase(dbName, ctx, false): the database has to exist
OpenDatabase(dbName) == IF dbName \in httpDbs THEN "errOK" ELSE "errNotFound"

\* iequals: two names are compared without regard to the case of their
\* letters; DbSpellings are the names a request can carry
DbSpellings == DbNames \cup {"DB1", "Db2"}
ToLower(name) ==
  CASE name = "DB1" -> "db1"
    [] name = "Db2" -> "db2"
    [] OTHER -> name
iequals(a, b) == ToLower(a) = ToLower(b)

\* getTx: lookup under txMtx_, refreshes the idle deadline
getTxKeepsDeadline(m, dbName, txId) ==
  IF txId \notin DOMAIN m THEN [map |-> m, err |-> "errNotFound"]
  ELSE IF ~iequals(m[txId].dbName, dbName) THEN [map |-> m, err |-> "errLogic"]
  ELSE [map |-> m, err |-> "errOK"]
getTx(m, dbName, txId) ==
  IF txId \notin DOMAIN m THEN [map |-> m, err |-> "errNotFound"]
  ELSE IF ~iequals(m[txId].dbName, dbName) THEN [map |-> m, err |-> "errLogic"]
  ELSE [map |-> [m EXCEPT ![txId].txDeadline = txIdleTimeout_], err |-> "errOK"]

\* removeTx
removeTx(m, dbName, txId) ==
  IF txId \notin DOMAIN m \/ ~iequals(m[txId].dbName, dbName)
  THEN [map |-> m, err |-> "errNotFound"]
  ELSE [map |-> mapErase(m, {txId}), err |-> "errOK"]

\* removeExpiredTx: every entry with txDeadline <= now is erased; Rollback is
\* invoked on it before when its database can be opened
removeExpiredTxNoRollback(m, objs) ==
  LET exp == {id \in DOMAIN m : m[id].txDeadline <= 0}
  IN [map |-> mapErase(m, exp), tx |-> objs]
removeExpiredTx(m, objs) ==
  LET exp == {id \in DOMAIN m : m[id].txDeadline <= 0}
      rb == {id \in exp : OpenDatabase(m[id].dbName) = "errOK"}
  IN [map |-> mapErase(m, exp),
      tx |-> [id \in DOMAIN objs |-> IF id \in rb THEN txRolledBack(objs[id]) ELSE objs[id]]]

\* BeginTx: getDB, NewTransaction (nsOk: its status), addTx with a new id
HttpBeginTx ==
  \E dbName \in DbNames, txId \in TxIds, nsOk \in BOOLEAN :
    /\ ~held(txId)
    /\ IF OpenDatabase(dbName) # "errOK"
       THEN /\ httpLast' = Status("BeginTx", OpenDatabase(dbName))
            /\ UNCHANGED <<txMap_, httpTx>>
       ELSE IF ~nsOk
       THEN /\ httpLast' = Status("BeginTx", "errParams")
            /\ UNCHANGED <<txMap_, httpTx>>
       ELSE IF txId \in DOMAIN txMap_
       THEN /\ httpLast' = Status("BeginTx", "errLogic")
            /\ UNCHANGED <<txMap_, httpTx>>
       ELSE /\ txMap_' = mapEmplace(txMap_, txId, TxInfo(dbName))
            /\ httpTx' = [httpTx EXCEPT ![txId] = ActiveTx]
            /\ httpLast' = Status("BeginTx", "errOK")
    /\ UNCHANGED <<httpDbs, hpc, hreq, nsVars, rpcVars, auxVars>>

\* the head of modifyItemsTx, modifyQueryTxImpl, CommitTx and RollbackTx:
\* getDB, then getTx; the handler goes on with the Transaction it obtained
HttpGetTx(h) ==
  /\ hpc[h] = "idle"
  /\ \E op \in {"items", "query", "commit", "rollback"}, dbName \in DbNames, txId \in TxIds :
       /\ op = "commit" => Len(wal_) < MaxWal
       /\ (op \in {"items", "query"} /\ txId \in DOMAIN txMap_) => Len(httpTx[txId].steps) < MaxHttpSteps
       /\ IF OpenDatabase(dbName) # "errOK"
          THEN /\ httpLast' = Status("getDB", OpenDatabase(dbName))
               /\ UNCHANGED <<txMap_, hpc, hreq>>
          ELSE LET r == getTx(txMap_, dbName, txId)
               IN /\ txMap_' = r.map
                  /\ httpLast' = Status("getTx", r.err)
                  /\ IF r.err = "errOK"
                     THEN /\ hpc' = [hpc EXCEPT ![h] = op]
                          /\ hreq' = [hreq EXCEPT ![h] = [txId |-> txId, dbName |-> dbName]]
                     ELSE UNCHANGED <<hpc, hreq>>
  /\ UNCHANGED <<httpTx, httpDbs, nsVars, rpcVars, auxVars>>

\* modifyItemsTxJSON with one item in the body: decode it, tx.Modify(item, mode)
HttpModifyItemsTx(h) ==
  /\ hpc[h] = "items"
  /\ \E decodeErr \in {"errOK", "errParseJson"} :
       /\ httpTx' = IF decodeErr = "errOK"
                    THEN [httpTx EXCEPT ![hreq[h].txId] = TxModify(@, SrvItemStep)]
                    ELSE httpTx
       /\ httpLast' = Status("modifyItemsTx", decodeErr)
  /\ hpc' = [hpc EXCEPT ![h] = "idle"]
  /\ hreq' = [hreq EXCEPT ![h] = NoReq]
  /\ UNCHANGED <<txMap_, httpDbs, nsVars, rpcVars, auxVars>>

\* a parsed Query: its type_ and whether mergeQueries_ / joinQueries_ hold
\* anything
QueryTypes == {"QuerySelect", "QueryUpdate", "QueryDelete", "QueryTruncate"}
HttpQueries == [type_ : QueryTypes, mergeQueries_ : BOOLEAN, joinQueries_ : BOOLEAN]
QueryStep(q) ==
  [SrvQueryStep EXCEPT !.mode = q.type_, !.val = IF q.type_ = "QueryUpdate" THEN 2 ELSE 1]

\* modifyQueryTxImpl after getTx: a query with merged or joined subqueries is
\* refused, any other is staged
modifyQueryTxImplStagesAll(tx, q) == [tx |-> TxModify(tx, QueryStep(q)), status |-> "errOK"]
modifyQueryTxImpl(tx, q) ==
  IF q.mergeQueries_ THEN [tx |-> tx, status |-> "StatusBadRequest"]
  ELSE IF q.joinQueries_ THEN [tx |-> tx, status |-> "StatusBadRequest"]
  ELSE [tx |-> TxModify(tx, QueryStep(q)), status |-> "errOK"]

\* GetSQLQueryTx switches on q.type_ before it calls modifyQueryTxImpl;
\* DeleteQueryTx sets q.type_ = QueryDelete and calls it
GetSQLQueryTx(tx, q) ==
  IF q.type_ \in {"QueryDelete", "QueryUpdate"} THEN modifyQueryTxImpl(tx, q)
  ELSE [tx |-> tx, status |-> "StatusInternalServerError"]
DeleteQueryTx(tx, q) == modifyQueryTxImpl(tx, [q EXCEPT !.type_ = "QueryDelete"])

\* GetSQLQueryTx with a query that is neither UPDATE nor DELETE: refused after
\* getDB, before the transaction is looked up
HttpSqlQueryRefused ==
  \E dbName \in DbNames, q \in HttpQueries :
    /\ q.type_ \notin {"QueryDelete", "QueryUpdate"}
    /\ ~q.mergeQueries_ /\ ~q.joinQueries_
    /\ httpLast' = IF OpenDatabase(dbName) # "errOK"
                   THEN Status("getDB", OpenDatabase(dbName))
                   ELSE Status("GetSQLQueryTx", GetSQLQueryTx(NoTx, q).status)
    /\ UNCHANGED <<txMap_, httpTx, httpDbs, hpc, hreq, nsVars, rpcVars, auxVars>>

\* the requests that reach modifyQueryTxImpl: an UPDATE or DELETE in SQL, or a
\* query sent to the DELETE endpoint (its type as parsed: QuerySelect); what
\* the handler never looks at is fixed
HttpQueryCalls ==
  {c \in [endpoint : {"GetSQLQueryTx", "DeleteQueryTx"}, q : HttpQueries] :
     /\ c.endpoint = "GetSQLQueryTx" => c.q.type_ \in {"QueryDelete", "QueryUpdate"}
     /\ c.endpoint = "DeleteQueryTx" => c.q.type_ = "QuerySelect"
     /\ c.q.mergeQueries_ => ~c.q.joinQueries_}

\* the rest of GetSQLQueryTx and of DeleteQueryTx, after getTx
HttpModifyQueryTx(h) ==
  /\ hpc[h] = "query"
  /\ \E c \in HttpQueryCalls :
       LET tx == httpTx[hreq[h].txId]
           r == IF c.endpoint = "GetSQLQueryTx" THEN GetSQLQueryTx(tx, c.q)
                ELSE DeleteQueryTx(tx, c.q)
       IN  /\ httpTx' = [httpTx EXCEPT ![hreq[h].txId] = r.tx]
           /\ httpLast' = Status("modifyQueryTx", r.status)
  /\ hpc' = [hpc EXCEPT ![h] = "idle"]
  /\ hreq' = [hreq EXCEPT ![h] = NoReq]
  /\ UNCHANGED <<txMap_, httpDbs, nsVars, rpcVars, auxVars>>

\* CommitTx after getTx: db.CommitTransaction(*tx); removeTx only when it was ok.
\* A commit in another database than TrackedDb ends as otherErr says.
HttpCommitTxRemovesAlways(h) ==
  /\ hpc[h] = "commit"
  /\ \E otherErr \in {"errOK", "errConflict"} :
       LET id == hreq[h].txId
           tracked == hreq[h].dbName = TrackedDb
           D == IF tracked THEN CommitTransaction(NsD, httpTx[id].steps) ELSE NsD
           ret == IF tracked THEN D.err ELSE otherErr
           r == removeTx(txMap_, hreq[h].dbName, id)
       IN /\ SetNs(D)
          /\ txMap_' = r.map
          /\ IF ret # "errOK"
             THEN /\ httpLast' = Status("CommitTx", "StatusInternalServerError")
                  /\ UNCHANGED httpTx
             ELSE /\ httpTx' = [httpTx EXCEPT ![id] = txCommitted(@)]
                  /\ httpLast' = Status("CommitTx", r.err)
  /\ hpc' = [hpc EXCEPT ![h] = "idle"]
  /\ hreq' = [hreq EXCEPT ![h] = NoReq]
  /\ UNCHANGED <<httpDbs, nsRest, rpcVars, auxVars>>
HttpCommitTx(h) ==
  /\ hpc[h] = "commit"
  /\ \E otherErr \in {"errOK", "errConflict"} :
       LET id == hreq[h].txId
           tracked == hreq[h].dbName = TrackedDb
           D == IF tracked THEN CommitTransaction(NsD, httpTx[id].steps) ELSE NsD
           ret == IF tracked THEN D.err ELSE otherErr
           r == removeTx(txMap_, hreq[h].dbName, id)
       IN /\ SetNs(D)
          /\ IF ret # "errOK"
             THEN /\ httpLast' = Status("CommitTx", "StatusInternalServerError")
                  /\ UNCHANGED <<txMap_, httpTx>>
             ELSE /\ txMap_' = r.map
                  /\ httpTx' = [httpTx EXCEPT ![id] = txCommitted(@)]
                  /\ httpLast' = Status("CommitTx", r.err)
  /\ hpc' = [hpc EXCEPT ![h] = "idle"]
  /\ hreq' = [hreq EXCEPT ![h] = NoReq]
  /\ UNCHANGED <<httpDbs, nsRest, rpcVars, auxVars>>

\* RollbackTx after getTx: db.RollBackTransaction(*tx) (ret: its status), removeTx
HttpRollbackTx(h) ==
  /\ hpc[h] = "rollback"
  /\ \E ret \in {"errOK", "errLogic"} :
       LET id == hreq[h].txId
           D == RollBackTransaction(NsD, httpTx[id])
           r == removeTx(txMap_, hreq[h].dbName, id)
       IN /\ SetNs(D)
          /\ httpTx' = [httpTx EXCEPT ![id] = txRolledBack(@)]
          /\ txMap_' = r.map
          /\ httpLast' = Status("RollbackTx", IF r.err # "errOK" THEN r.err ELSE ret)
  /\ hpc' = [hpc EXCEPT ![h] = "idle"]
  /\ hreq' = [hreq EXCEPT ![h] = NoReq]
  /\ UNCHANGED <<httpDbs, nsRest, rpcVars, auxVars>>

\* DeleteDatabase: dbMgr_.DropDatabase; txMap_ is not looked at
HttpDeleteDatabase ==
  \E dbName \in DbNames \ {TrackedDb} :
    /\ dbName \in httpDbs
    /\ httpDbs' = httpDbs \ {dbName}
    /\ httpLast' = Status("DeleteDatabase", "errOK")
    /\ UNCHANGED <<txMap_, httpTx, hpc, hreq, nsVars, rpcVars, auxVars>>

\* PostDatabase: refused when the database exists, else OpenDatabase creates it
HttpPostDatabase ==
  \E dbName \in DbNames :
    /\ IF dbName \in httpDbs
       THEN /\ httpLast' = Status("PostDatabase", "StatusBadRequest")
            /\ UNCHANGED httpDbs
       ELSE /\ httpDbs' = httpDbs \cup {dbName}
            /\ httpLast' = Status("PostDatabase", "errOK")
    /\ UNCHANGED <<txMap_, httpTx, hpc, hreq, nsVars, rpcVars, auxVars>>

\* the deadline clock advances by one tick
Tick ==
  /\ \E id \in DOMAIN txMap_ : txMap_[id].txDeadline > 0
  /\ txMap_' = [id \in DOMAIN txMap_ |-> [txMap_[id] EXCEPT !.txDeadline = Max(0, @ - 1)]]
  /\ httpLast' = Status("tick", "errOK")
  /\ UNCHANGED <<httpTx, httpDbs, hpc, hreq, nsVars, rpcVars, auxVars>>

\* deadlineChecker_ fires every kTxDeadlineCheckPeriod and runs removeExpiredTx
DeadlineTimer ==
  LET r == removeExpiredTx(txMap_, httpTx)
  IN /\ txMap_' = r.map
     /\ httpTx' = r.tx
     /\ httpLast' = Status("removeExpiredTx", "errOK")
     /\ UNCHANGED <<httpDbs, hpc, hreq, nsVars, rpcVars, auxVars>>

HttpNext ==
  \/ HttpBeginTx
  \/ \E h \in Handlers : HttpGetTx(h)
  \/ \E h \in Handlers : HttpModifyItemsTx(h)
  \/ HttpSqlQueryRefused
  \/ \E h \in Handlers : HttpModifyQueryTx(h)
  \/ \E h \in Handlers : HttpCommitTx(h)
  \/ \E h \in Handlers : HttpRollbackTx(h)
  \/ HttpDeleteDatabase
  \/ HttpPostDatabase
  \/ Tick
  \/ DeadlineTimer

SpecHttp == Init /\ [][HttpNext]_vars
\* the clock runs and the periodic timer keeps firing
SpecHttpLive == SpecHttp /\ WF_vars(Tick) /\ WF_vars(DeadlineTimer)

\* ------------------------------------------------------------ IndexStore<T>
St == [T |-> storeT, opts |-> opts_, str_map |-> str_map, idx_data |-> idx_data,
       expiredStrings_ |-> expiredStrings_, ret |-> NullKey, err |-> "errOK"]
SetSt(S) ==
  /\ str_map' = S.str_map
  /\ idx_data' = S.idx_data
  /\ expiredStrings_' = S.expiredStrings_

\* str_map.find / emplace / erase
strFind(m, key) == key.val \in DOMAIN m
strEmplace(m, key, n) ==
  [v \in (DOMAIN m) \cup {key.val} |-> IF v = key.val THEN [key |-> key, count |-> n] ELSE m[v]]
strErase(m, key) == [v \in (DOMAIN m) \ {key.val} |-> m[v]]

\* IndexStore<key_string>::Delete and the generic IndexStore<T>::Delete
DeleteDropsAtOnce(S, key, id) ==
  IF S.T # "key_string" \/ key.type = "KeyValueNull" \/ ~strFind(S.str_map, key) THEN S
  ELSE [S EXCEPT !.expiredStrings_ = Append(@, S.str_map[key.val].key),
                 !.str_map = strErase(@, key)]
IndexStoreDelete(S, key, id) ==
  IF S.T # "key_string" THEN S
  ELSE IF key.type = "KeyValueNull" THEN S
  ELSE IF ~strFind(S.str_map, key) THEN S
  ELSE LET e == S.str_map[key.val]
           n == IF e.count # 0 THEN e.count - 1 ELSE e.count
       IN  IF n = 0
           THEN [S EXCEPT !.expiredStrings_ = Append(@, e.key),
                          !.str_map = strErase(@, key)]
           ELSE [S EXCEPT !.str_map[key.val].count = n]

\* IndexStore<key_string>::RemoveExpiredStrings and the generic, empty one
RemoveExpiredStringsDropsMap(S) ==
  [S EXCEPT !.expiredStrings_ = <<>>, !.str_map = <<>>]
RemoveExpiredStrings(S) ==
  IF S.T = "key_string" THEN [S EXCEPT !.expiredStrings_ = <<>>] ELSE S

\* idx_data.resize(n): new elements are value-initialised
resizeClears(col, n) == [i \in 1..n |-> DefaultT]
resize(col, n) == [i \in 1..n |-> IF i <= Len(col) THEN col[i] ELSE DefaultT]

\* IndexStore<key_string>::Upsert and the generic IndexStore<T>::Upsert
UpsertReturnsArgument(S, key, id) ==
  IF S.T = "key_string" /\ key.type # "KeyValueNull"
  THEN LET m == IF strFind(S.str_map, key) THEN S.str_map ELSE strEmplace(S.str_map, key, 0)
       IN  [S EXCEPT !.str_map = [m EXCEPT ![key.val].count = @ + 1], !.ret = key]
  ELSE [S EXCEPT !.ret = key]
IndexStoreUpsert(S, key, id) ==
  IF S.T = "key_string"
  THEN IF key.type = "KeyValueNull" THEN [S EXCEPT !.ret = NullKey]
       ELSE LET m == IF strFind(S.str_map, key) THEN S.str_map
                     ELSE strEmplace(S.str_map, key, 0)
                m2 == [m EXCEPT ![key.val].count = @ + 1]
            IN  [S EXCEPT !.str_map = m2, !.ret = m2[key.val].key]
  ELSE IF S.T = "PayloadValue" THEN [S EXCEPT !.ret = key]
  ELSE IF ~S.opts.array /\ ~S.opts.dense /\ ~S.opts.sparse /\ key.type # "KeyValueNull"
       THEN LET col == resize(S.idx_data, Max(id + 1, Len(S.idx_data)))
            IN  [S EXCEPT !.idx_data = [col EXCEPT ![id + 1] = key.val], !.ret = key]
       ELSE [S EXCEPT !.ret = key]

\* IndexStore<T>::SelectKey: the result is one comparator, or the error thrown
Comparator(S, keys, condition, sopts) ==
  [cond |-> condition, keys |-> keys, isArray |-> S.opts.array,
   distinct |-> sopts.distinct, column |-> S.idx_data]
SelectKeyThrowsNothing(S, keys, condition, sopts) ==
  [err |-> "errOK", res |-> <<Comparator(S, keys, condition, sopts)>>]
IndexStoreSelectKey(S, keys, condition, sopts) ==
  IF condition = "CondEmpty" /\ ~S.opts.array /\ ~S.opts.sparse
  THEN [err |-> "errParams", res |-> <<>>]
  ELSE IF condition = "CondAny" /\ ~S.opts.array /\ ~S.opts.sparse /\ ~sopts.distinct
  THEN [err |-> "errParams", res |-> <<>>]
  ELSE [err |-> "errOK", res |-> <<Comparator(S, keys, condition, sopts)>>]

\* references str_map holds over all its entries
RECURSIVE SumCounts(_, _)
SumCounts(m, ks) ==
  IF ks = {} THEN 0
  ELSE LET k == CHOOSE x \in ks : TRUE IN m[k].count + SumCounts(m, ks \ {k})

\* the index is constructed: the destructor of the one it replaces asserts
\* that expiredStrings_ is empty
StoreNew ==
  /\ expiredStrings_ = <<>>
  /\ \E T \in StoreTypes, o \in IndexOpts :
       /\ storeT' = T
       /\ opts_' = o
  /\ str_map' = <<>>
  /\ idx_data' = <<>>
  /\ expiredStrings_' = <<>>
  /\ storeRefs' = <<>>
  /\ storeRet' = NoStoreRet
  /\ UNCHANGED <<nsVars, rpcVars, httpVars, storageVars, connVars, sysVars, cloneVars, ftVars, authVars,
            qrVars, memVars, mpVars>>

\* storeRefs counts, per string, the Upserts minus the Deletes made since the
\* entry was created
StoreUpsert ==
  \E key \in StoreKeys, id \in StoreIds :
    /\ SumCounts(str_map, DOMAIN str_map) < MaxRefs
    /\ LET S == IndexStoreUpsert(St, key, id)
       IN  /\ SetSt(S)
           /\ storeRet' = [op |-> "Upsert", key |-> key, id |-> id, ret |-> S.ret, err |-> "errOK"]
    /\ storeRefs' =
         IF storeT # "key_string" \/ key.type = "KeyValueNull" THEN storeRefs
         ELSE IF key.val \in DOMAIN str_map THEN [storeRefs EXCEPT ![key.val] = @ + 1]
         ELSE [v \in (DOMAIN str_map) \cup {key.val} |-> IF v = key.val THEN 1 ELSE storeRefs[v]]
    /\ UNCHANGED <<storeT, opts_, nsVars, rpcVars, httpVars, storageVars, connVars, sysVars, cloneVars,
            ftVars, authVars, qrVars, memVars, mpVars>>

StoreDelete ==
  \E key \in StoreKeys, id \in StoreIds :
    /\ Len(expiredStrings_) < MaxExpired
    /\ SetSt(IndexStoreDelete(St, key, id))
    /\ storeRet' = [op |-> "Delete", key |-> key, id |-> id, ret |-> NullKey, err |-> "errOK"]
    /\ storeRefs' =
         IF storeT # "key_string" \/ key.type = "KeyValueNull" \/ key.val \notin DOMAIN str_map
         THEN storeRefs
         ELSE [v \in DOMAIN str_map' |-> IF v = key.val THEN storeRefs[v] - 1 ELSE storeRefs[v]]
    /\ UNCHANGED <<storeT, opts_, nsVars, rpcVars, httpVars, storageVars, connVars, sysVars, cloneVars,
            ftVars, authVars, qrVars, memVars, mpVars>>

StoreRemoveExpiredStrings ==
  /\ SetSt(RemoveExpiredStrings(St))
  /\ storeRet' = [NoStoreRet EXCEPT !.op = "RemoveExpiredStrings"]
  /\ UNCHANGED <<storeT, opts_, storeRefs, nsVars, rpcVars, httpVars, storageVars, connVars, sysVars,
                 cloneVars, ftVars, authVars, qrVars, memVars, mpVars>>

KeySets == {<<>>, <<NullKey>>, <<StrKey("a", 1)>>}
StoreSelectKey ==
  \E keys \in KeySets, condition \in CondTypes, sopts \in SelectOpts :
    LET r == IndexStoreSelectKey(St, keys, condition, sopts)
    IN  /\ storeRet' = [op |-> "SelectKey", key |-> keys, id |-> condition,
                        ret |-> r.res, err |-> r.err, sopts |-> sopts]
        /\ UNCHANGED <<storeT, opts_, str_map, idx_data, expiredStrings_, storeRefs,
                       nsVars, rpcVars, httpVars, storageVars, connVars, sysVars, cloneVars,
                       ftVars, authVars, qrVars, memVars, mpVars>>

StoreNext ==
  \/ StoreNew
  \/ StoreUpsert
  \/ StoreDelete
  \/ StoreRemoveExpiredStrings
  \/ StoreSelectKey

SpecStore == Init /\ [][StoreNext]_vars

\* ------------------------------------------------------------ storage flush
\* Locker::StorageLock: storage_mtx_ is taken and the call throws when the
\* namespace is read-only
StorageLock == IF readonly_ THEN "errNamespaceInvalidated" ELSE "errOK"

\* The background flush of the updates not yet in storage: it reads the
\* namespace under the read lock and writes under the storage lock. The
\* write succeeds or fails; a failed write marks the namespace read-only.
\* roSnapshot remembers the rows and indexes at that moment.
FlushStorage ==
  /\ flushedUpTo < Len(wal_)
  /\ mtxWriter = NoThread
  /\ IF StorageLock # "errOK"
     THEN /\ flushRet' = StorageLock
          /\ UNCHANGED <<readonly_, flushedUpTo, storageWrites, roSnapshot>>
     ELSE /\ storageWrites < MaxFlush
          /\ storageWrites' = storageWrites + 1
          /\ \E ok \in BOOLEAN :
               IF ok
               THEN /\ flushedUpTo' = Len(wal_)
                    /\ flushRet' = "errOK"
                    /\ UNCHANGED <<readonly_, roSnapshot>>
               ELSE /\ flushRet' = "failed"
                    /\ readonly_' = TRUE
                    /\ roSnapshot' = [taken |-> TRUE, items_ |-> items_, indexes_ |-> indexes_]
                    /\ UNCHANGED flushedUpTo
  /\ UNCHANGED <<nsData, optimizationState_, optVars, mtxWriter, mtxReaders, thrVars,
                 rpcVars, httpVars, storeVars, connVars, sysVars, cloneVars, ftVars, authVars,
                 qrVars, memVars, mpVars>>

RoNext ==
  \/ \E t \in Threads : BeginWrite(t)
  \/ \E t \in Threads : WLockAcquire(t)
  \/ \E t \in Threads : WLockCheck(t)
  \/ \E t \in Threads : RLock(t)
  \/ \E t \in Threads : EndRead(t)
  \/ \E t \in Threads : ModifyItem(t)
  \/ FlushStorage

SpecRo == Init /\ [][RoNext]_vars

\* ------------------------------------------------------------ RPC connection
\* SemVersion: the numbers of a version; SemVersion() has none. operator<
\* compares them in order
SemVersion == <<>>
kMinUnknownReplSupportRxVersion == <<2, 6, 0>>
ClientVersions == {<<1, 9, 9>>, <<2, 5, 9>>, <<2, 6, 0>>, <<2, 6, 1>>, <<3, 0, 0>>}
SemVersionLess(a, b) ==
  \E i \in 1..(Len(b)) :
    /\ \A j \in 1..(i - 1) : j <= Len(a) /\ a[j] = b[j]
    /\ (i > Len(a) \/ a[i] < b[i])

\* the lambda given to pusher.SetFilter: its return value and the record as
\* it leaves it
FilterKeepsFlag(rec) == [ret |-> rec.type \in {"WalCommitTransaction", "WalInitTransaction", "WalSetSchema"},
                         rec |-> rec]
Filter(rec) ==
  IF rec.type = "WalCommitTransaction" \/ rec.type = "WalInitTransaction" \/ rec.type = "WalSetSchema"
  THEN [ret |-> TRUE, rec |-> rec]
  ELSE [ret |-> FALSE, rec |-> [rec EXCEPT !.inTransaction = FALSE]]

\* RPCServer::Login: the client data of the connection and the status returned
Login(cd, version, loginOk, openOk) ==
  IF cd.logged THEN [cd |-> cd, err |-> "errParams"]
  ELSE IF ~loginOk THEN [cd |-> cd, err |-> "errForbidden"]
  ELSE [cd |-> [logged |-> TRUE, rxVersion |-> version,
                filter |-> SemVersionLess(version, kMinUnknownReplSupportRxVersion)],
        err |-> IF openOk THEN "errOK" ELSE "errNotFound"]

\* clientRxVersion is optional: without a value the version is SemVersion()
RpcLogin ==
  \E version \in ClientVersions \cup {SemVersion}, loginOk \in BOOLEAN, openOk \in BOOLEAN :
    LET r == Login(clientData, version, loginOk, openOk)
    IN  /\ clientData' = r.cd
        /\ loginRet' = r.err
        /\ UNCHANGED <<pushRet, nsVars, rpcVars, httpVars, storeVars, storageVars, sysVars, cloneVars, ftVars,
            authVars, qrVars, memVars, mpVars>>

\* the connection is closed; the next one starts without client data
RpcOnClose ==
  /\ clientData.logged
  /\ clientData' = NoClient
  /\ loginRet' = "none"
  /\ UNCHANGED <<pushRet, nsVars, rpcVars, httpVars, storeVars, storageVars, sysVars, cloneVars, ftVars,
            authVars, qrVars, memVars, mpVars>>

\* a WAL record reaches the pusher of a logged-in client: the filter, when
\* one is installed, is run on it
PushUpdate ==
  \E rec \in WALRecords :
    /\ clientData.logged
    /\ pushRet' = IF clientData.filter
                  THEN [filtered |-> TRUE, ret |-> Filter(rec).ret, in |-> rec, out |-> Filter(rec).rec]
                  ELSE [filtered |-> FALSE, ret |-> FALSE, in |-> rec, out |-> rec]
    /\ UNCHANGED <<clientData, loginRet, nsVars, rpcVars, httpVars, storeVars, storageVars, sysVars,
                   cloneVars, ftVars, authVars, qrVars, memVars, mpVars>>

\* RPCServer::CheckAuth, the middleware the dispatcher runs before a handler
CheckAuthAllowsAll(cd, cmd) == "errOK"
CheckAuth(cd, cmd) ==
  IF cmd = "kCmdLogin" \/ cmd = "kCmdPing" THEN "errOK"
  ELSE IF ~cd.logged THEN "errForbidden"
  ELSE "errOK"

\* a command other than Login arrives: the handler is called when the
\* middleware returned no error
RpcCall ==
  \E cmd \in Cmds \ {"kCmdLogin"} :
    LET err == CheckAuth(clientData, cmd)
    IN  /\ callRet' = [cmd |-> cmd, err |-> err, dispatched |-> err = "errOK",
                       logged |-> clientData.logged]
        /\ UNCHANGED <<connVars, nsVars, rpcVars, httpVars, storeVars, storageVars, sysVars,
                       cloneVars, ftVars, qrVars, memVars, mpVars>>

ConnNext ==
  \/ RpcLogin
  \/ RpcOnClose
  \/ PushUpdate
  \/ RpcCall

SpecConn == Init /\ [][ConnNext]_vars

\* ------------------------------------------------------------ sys records
\* a record parses when it was written completely
Parses(rec) == rec \in SysData

\* loadLatestSysRecord: the record of the highest version that parses
loadLatestTakesHighest(st, tag) ==
  LET present == {v \in SysVersions : st[tag][v] # "none"}
  IN  IF present = {} THEN [version |-> 0, content |-> "none", err |-> "errNotFound"]
      ELSE LET v == CHOOSE x \in present : \A y \in present : y <= x
           IN  [version |-> v, content |-> st[tag][v],
                err |-> IF Parses(st[tag][v]) THEN "errOK" ELSE "errParseBin"]
loadLatestSysRecord(st, tag) ==
  LET good == {v \in SysVersions : Parses(st[tag][v])}
  IN  IF good = {} THEN [version |-> 0, content |-> "none", err |-> "errNotFound"]
      ELSE LET v == CHOOSE x \in good : \A y \in good : y <= x
           IN  [version |-> v, content |-> st[tag][v], err |-> "errOK"]

\* writeSysRecToStorage in two steps: the record of the next version is
\* written, then the one before it is reclaimed
sysWrite(st, tag, v, data) == [st EXCEPT ![tag][v] = data]
sysReclaimDropsNewest(st, tag, v) == [st EXCEPT ![tag][v] = "none"]
sysReclaim(st, tag, v) == IF v > 1 THEN [st EXCEPT ![tag][v - 1] = "none"] ELSE st

\* the process stops: what was in memory is gone, and the namespace, opened
\* again, takes its versions from the records it can load
restarted(st) ==
  /\ sysRecordsVersions_' = [tag \in SysTags |-> loadLatestSysRecord(st, tag).version]
  /\ sysPc' = [tag \in SysTags |-> "idle"]

\* first step: the write; it can be cut short by a crash, which leaves a
\* record that does not parse
SysWriteRecord ==
  \E tag \in SysTags, data \in SysData, cut \in BOOLEAN :
    /\ sysPc[tag] = "idle"
    /\ sysRecordsVersions_[tag] < MaxSysVersion
    /\ LET v == sysRecordsVersions_[tag] + 1
       IN  IF cut
           THEN /\ sysStorage' = sysWrite(sysStorage, tag, v, "torn")
                /\ restarted(sysStorage')
                /\ UNCHANGED sysEver
           ELSE /\ sysStorage' = sysWrite(sysStorage, tag, v, data)
                /\ sysRecordsVersions_' = [sysRecordsVersions_ EXCEPT ![tag] = v]
                /\ sysPc' = [sysPc EXCEPT ![tag] = "written"]
                /\ sysEver' = [sysEver EXCEPT ![tag] = TRUE]
    /\ UNCHANGED <<sysLoaded, nsVars, rpcVars, httpVars, storeVars, storageVars, connVars, cloneVars,
            ftVars, authVars, qrVars, memVars, mpVars>>

\* second step: the prior version is reclaimed
SysReclaimPrior ==
  \E tag \in SysTags :
    /\ sysPc[tag] = "written"
    /\ sysStorage' = sysReclaim(sysStorage, tag, sysRecordsVersions_[tag])
    /\ sysPc' = [sysPc EXCEPT ![tag] = "idle"]
    /\ UNCHANGED <<sysRecordsVersions_, sysEver, sysLoaded, nsVars, rpcVars, httpVars,
                   storeVars, storageVars, connVars, cloneVars, ftVars, authVars, qrVars, memVars,
                   mpVars>>

\* a crash between two steps
SysCrash ==
  /\ restarted(sysStorage)
  /\ UNCHANGED <<sysStorage, sysEver, sysLoaded, nsVars, rpcVars, httpVars, storeVars,
                 storageVars, connVars, cloneVars, ftVars, authVars, qrVars, memVars, mpVars>>

\* a reader loads the latest record of a tag
SysLoad ==
  \E tag \in SysTags :
    /\ LET r == loadLatestSysRecord(sysStorage, tag)
       IN  sysLoaded' = [tag |-> tag, version |-> r.version, content |-> r.content, err |-> r.err]
    /\ UNCHANGED <<sysStorage, sysRecordsVersions_, sysPc, sysEver, nsVars, rpcVars, httpVars,
                   storeVars, storageVars, connVars, cloneVars, ftVars, authVars, qrVars, memVars,
                   mpVars>>

SysNext ==
  \/ SysWriteRecord
  \/ SysReclaimPrior
  \/ SysCrash
  \/ SysLoad

SpecSys == Init /\ [][SysNext]_vars

\* ------------------------------------------------- a second IndexStore<T>
\* IndexStore(const IndexStore &): the key_string specialisation copies
\* str_map and idx_data and leaves expiredStrings_ empty, the generic one
\* copies every member
copyConstruct(S) ==
  IF S.T = "key_string" THEN [S EXCEPT !.expiredStrings_ = <<>>] ELSE S

\* IndexStore<T>::Clone: the copy, then the two expiredStrings_ swapped
CloneWithoutSwap(S) == [ret |-> copyConstruct(S), src |-> S]
IndexStoreClone(S) ==
  LET c == copyConstruct(S)
  IN  [ret |-> [c EXCEPT !.expiredStrings_ = S.expiredStrings_],
       src |-> [S EXCEPT !.expiredStrings_ = c.expiredStrings_]]

\* IndexStore(IndexStore &&): every container is moved out of the argument
moveConstructLeavesExpired(S) ==
  [to |-> [S EXCEPT !.expiredStrings_ = <<>>],
   from |-> [S EXCEPT !.str_map = <<>>, !.idx_data = <<>>]]
moveConstruct(S) ==
  [to |-> S,
   from |-> [S EXCEPT !.str_map = <<>>, !.idx_data = <<>>, !.expiredStrings_ = <<>>]]

Instance(S) == [alive |-> TRUE, T |-> S.T, opts |-> S.opts, str_map |-> S.str_map,
                idx_data |-> S.idx_data, expiredStrings_ |-> S.expiredStrings_]

StoreClone ==
  /\ ~cloneSt.alive
  /\ LET r == IndexStoreClone(St)
     IN  /\ SetSt(r.src)
         /\ cloneSt' = Instance(r.ret)
  /\ cloneRet' = "Clone"
  /\ storeRet' = [NoStoreRet EXCEPT !.op = "Clone"]
  /\ UNCHANGED <<storeT, opts_, storeRefs, destroyed, nsVars, rpcVars, httpVars, storageVars,
                 connVars, sysVars, ftVars, authVars, qrVars, memVars, mpVars>>

StoreMove ==
  /\ ~cloneSt.alive
  /\ LET r == moveConstruct(St)
     IN  /\ SetSt(r.from)
         /\ cloneSt' = Instance(r.to)
  /\ cloneRet' = "Move"
  /\ storeRet' = [NoStoreRet EXCEPT !.op = "Move"]
  /\ storeRefs' = <<>>
  /\ UNCHANGED <<storeT, opts_, destroyed, nsVars, rpcVars, httpVars, storageVars, connVars,
                 sysVars, ftVars, authVars, qrVars, memVars, mpVars>>

CloneDelete ==
  \E key \in StoreKeys, id \in StoreIds :
    /\ cloneSt.alive
    /\ Len(cloneSt.expiredStrings_) < MaxExpired
    /\ cloneSt' = IndexStoreDelete(cloneSt, key, id)
    /\ cloneRet' = "Delete"
    /\ UNCHANGED <<storeVars, destroyed, nsVars, rpcVars, httpVars, storageVars, connVars,
                   sysVars, ftVars, authVars, qrVars, memVars, mpVars>>

CloneRemoveExpiredStrings ==
  /\ cloneSt.alive
  /\ cloneSt' = RemoveExpiredStrings(cloneSt)
  /\ cloneRet' = "RemoveExpiredStrings"
  /\ UNCHANGED <<storeVars, destroyed, nsVars, rpcVars, httpVars, storageVars, connVars, sysVars,
            ftVars, authVars, qrVars, memVars, mpVars>>

\* the second instance is destroyed once its holder has released its strings
CloneDestroy ==
  /\ cloneSt.alive
  /\ cloneRet = "RemoveExpiredStrings"
  /\ destroyed' = [any |-> TRUE, who |-> "clone", expiredStrings_ |-> cloneSt.expiredStrings_]
  /\ cloneSt' = NoInstance
  /\ cloneRet' = "none"
  /\ UNCHANGED <<storeVars, nsVars, rpcVars, httpVars, storageVars, connVars, sysVars, ftVars, authVars,
            qrVars, memVars, mpVars>>

\* the calls after which the holder of an index lets go of it: none yet, its
\* strings released, or the instance copied or moved into another one
Released == {"none", "RemoveExpiredStrings", "Clone", "Move"}

\* the index is destroyed and one of the same kind constructed in its place;
\* `destroyed` keeps what ~IndexStore found in expiredStrings_
StoreDestroy ==
  /\ storeRet.op \in Released
  /\ destroyed' = [any |-> TRUE, who |-> "source", expiredStrings_ |-> expiredStrings_]
  /\ str_map' = <<>>
  /\ idx_data' = <<>>
  /\ expiredStrings_' = <<>>
  /\ storeRefs' = <<>>
  /\ storeRet' = NoStoreRet
  /\ UNCHANGED <<storeT, opts_, cloneSt, cloneRet, nsVars, rpcVars, httpVars, storageVars,
                 connVars, sysVars, ftVars, authVars, qrVars, memVars, mpVars>>

CloneNext ==
  \/ StoreDestroy
  \/ StoreUpsert
  \/ StoreDelete
  \/ StoreRemoveExpiredStrings
  \/ StoreClone
  \/ StoreMove
  \/ CloneDelete
  \/ CloneRemoveExpiredStrings
  \/ CloneDestroy

SpecClone == Init /\ [][CloneNext]_vars

\* ----------------------------------------------------------- FuzzyIndexText<T>
\* a score is a fraction n/d with d > 0; the products and comparisons of
\* Select are those of the fractions
Frac(n, d) == [n |-> n, d |-> d]
FracMul(a, b) == Frac(a.n * b.n, a.d * b.d)
FracLess(a, k) == a.n < k * a.d
FracEq(a, b) == a.n * b.d = b.n * a.d

\* what engine_.Search gives: candidates (document, score), each document
\* once, and the greatest of the scores
SetMax(S) == IF S = {} THEN 0 ELSE CHOOSE x \in S : \A y \in S : y <= x
MergedData == [id_ : FtDocs, proc_ : Procs]
SearchData ==
  {<<>>} \cup {<<a>> : a \in MergedData}
         \cup {p \in MergedData \X MergedData : p[1].id_ # p[2].id_}
SearchResult(data) ==
  [data_ |-> data, max_proc_ |-> SetMax({data[i].proc_ : i \in 1..Len(data)})]

\* coof of FuzzyIndexText<T>::Select
coofAlwaysScales(max_proc_) ==
  IF max_proc_ > 0 THEN Frac(100, max_proc_) ELSE Frac(1, 1)
coof(max_proc_) ==
  IF max_proc_ > 100 THEN Frac(100, max_proc_) ELSE Frac(1, 1)

\* the loop of FuzzyIndexText<T>::Select over result.data_, from candidate i:
\* the ids appended to mergedIds and the (id, rank) pairs added to fctx
RECURSIVE SelectLoop(_, _, _, _, _)
SelectLoop(data, i, c, minOkProc, acc) ==
  IF i > Len(data) THEN acc
  ELSE LET proc_ == FracMul(Frac(data[i].proc_, 1), c)
           id_set == vdocs_[data[i].id_]
       IN  IF FracLess(proc_, minOkProc)
           THEN SelectLoop(data, i + 1, c, minOkProc, acc)
           ELSE SelectLoop(data, i + 1, c, minOkProc,
                  [mergedIds |-> acc.mergedIds \o id_set,
                   ranks |-> acc.ranks \o [k \in 1..Len(id_set) |->
                                              [id |-> id_set[k], proc |-> proc_]]])

FuzzyIndexTextSelect(result, minOkProc) ==
  SelectLoop(result.data_, 1, coof(result.max_proc_), minOkProc,
             [mergedIds |-> <<>>, ranks |-> <<>>])

FuzzySelect ==
  \E data \in SearchData, minOkProc \in MinOkProcs :
    LET result == SearchResult(data)
        r == FuzzyIndexTextSelect(result, minOkProc)
    IN  /\ ftRet' = [data |-> data, max_proc_ |-> result.max_proc_, minOkProc |-> minOkProc,
                     mergedIds |-> r.mergedIds, ranks |-> r.ranks]
        /\ UNCHANGED <<nsVars, rpcVars, httpVars, storeVars, storageVars, connVars, sysVars,
                       cloneVars, authVars, qrVars, memVars, mpVars>>

FtNext == FuzzySelect

SpecFuzzy == Init /\ [][FtNext]_vars

\* ------------------------------------------------------ RPC query results
\* request ids are 0-based; results[id] of the code is v[id + 1] here
firstFreeSlot(v) ==
  IF \E i \in DOMAIN v : ~v[i].used
  THEN (CHOOSE i \in DOMAIN v : ~v[i].used /\ \A j \in DOMAIN v : ~v[j].used => i <= j) - 1
  ELSE -1

\* RPCServer::getQueryResults: a negative id asks for a slot (the first free
\* one, or a new one unless results.size() > kMaxConcurentQueries); any other
\* id is accepted when it is inside the vector
getQueryResults(v, id) ==
  IF id < 0
  THEN LET f == firstFreeSlot(v)
       IN  IF f >= 0
           THEN [v |-> [v EXCEPT ![f + 1] = [count |-> 0, used |-> TRUE]], id |-> f,
                 err |-> "errOK", what |-> ""]
           ELSE IF Len(v) > kMaxConcurentQueries
           THEN [v |-> v, id |-> Len(v), err |-> "errLogic", what |-> "Too many paralell queries"]
           ELSE [v |-> Append(v, [count |-> 0, used |-> TRUE]), id |-> Len(v),
                 err |-> "errOK", what |-> ""]
  ELSE IF id >= Len(v)
       THEN [v |-> v, id |-> id, err |-> "errLogic", what |-> "Invalid query id"]
       ELSE [v |-> v, id |-> id, err |-> "errOK", what |-> ""]

\* RPCServer::freeQueryResults
freeQueryResults(v, id) ==
  IF id >= Len(v) \/ id < 0
  THEN [v |-> v, err |-> "errLogic", what |-> "Invalid query id"]
  ELSE [v |-> [v EXCEPT ![id + 1] = FreeSlot], err |-> "errOK", what |-> ""]

\* WrResultSerializer::PutResults: the rows from fetchOffset, at most
\* fetchLimit of them, are written; it answers whether the last row went out
PutResults(count, opts) ==
  LET upTo == IF opts.offset + opts.limit < count THEN opts.offset + opts.limit ELSE count
  IN  [sent |-> IF upTo > opts.offset THEN upTo - opts.offset ELSE 0,
       doClose |-> opts.offset + opts.limit >= count]

\* RPCServer::sendResults: the slots, the request id and the rows returned
sendResults(v, reqId, count, opts) ==
  LET p == PutResults(count, opts)
  IN  IF p.doClose /\ reqId >= 0
      THEN [v |-> freeQueryResults(v, reqId).v, reqId |-> -1, sent |-> p.sent,
            err |-> "errOK", what |-> ""]
      ELSE [v |-> v, reqId |-> reqId, sent |-> p.sent, err |-> "errOK", what |-> ""]

\* RPCServer::fetchResults
fetchResults(v, reqId, opts) ==
  LET g == getQueryResults(v, reqId)
  IN  IF g.err # "errOK"
      THEN [v |-> g.v, reqId |-> -1, sent |-> 0, err |-> g.err, what |-> g.what]
      ELSE sendResults(g.v, g.id, g.v[g.id + 1].count, opts)

\* RPCServer::Select and SelectSQL: getQueryResults for a new slot, getDB
\* (which throws when the database is not open or the role does not allow
\* reading), the query (ret: its status, count: its rows), fetchResults
SelectKeepsSlotOnFailure(v, dbOk, ret, count, limit) ==
  LET g == getQueryResults(v, -1)
  IN  IF g.err # "errOK"
      THEN [v |-> g.v, id |-> -1, reqId |-> -1, sent |-> 0, err |-> g.err, what |-> g.what]
      ELSE IF ~dbOk
      THEN [v |-> g.v, id |-> g.id, reqId |-> -1, sent |-> 0, err |-> "errParams", what |-> "getDB"]
      ELSE IF ret # "errOK"
      THEN [v |-> g.v, id |-> g.id, reqId |-> -1, sent |-> 0, err |-> ret, what |-> "Select"]
      ELSE LET f == fetchResults([g.v EXCEPT ![g.id + 1].count = count], g.id,
                                 [offset |-> 0, limit |-> limit])
           IN  [v |-> f.v, id |-> g.id, reqId |-> f.reqId, sent |-> f.sent, err |-> f.err,
                what |-> f.what]
Select(v, dbOk, ret, count, limit) ==
  LET g == getQueryResults(v, -1)
  IN  IF g.err # "errOK"
      THEN [v |-> g.v, id |-> -1, reqId |-> -1, sent |-> 0, err |-> g.err, what |-> g.what]
      ELSE IF ~dbOk
      THEN [v |-> g.v, id |-> g.id, reqId |-> -1, sent |-> 0, err |-> "errParams", what |-> "getDB"]
      ELSE IF ret # "errOK"
      THEN [v |-> freeQueryResults(g.v, g.id).v, id |-> g.id, reqId |-> -1, sent |-> 0,
            err |-> ret, what |-> "Select"]
      ELSE LET f == fetchResults([g.v EXCEPT ![g.id + 1].count = count], g.id,
                                 [offset |-> 0, limit |-> limit])
           IN  [v |-> f.v, id |-> g.id, reqId |-> f.reqId, sent |-> f.sent, err |-> f.err,
                what |-> f.what]

\* the inputs of the calls: limits and offsets of a fetch, request ids in and
\* around the vector, the statuses of a query
Limits == {1, MaxCount + 1}
Offsets == {0, 1}
ReqIds == -1..(kMaxConcurentQueries + 1)
SelectRets == {"errOK", "errParseSQL"}

RpcSelect ==
  \E dbOk \in BOOLEAN, ret \in SelectRets, count \in 0..MaxCount, limit \in Limits :
    /\ (~dbOk \/ ret # "errOK") => (count = 0 /\ limit = 1)
    /\ ~dbOk => ret = "errOK"
    /\ LET r == Select(results, dbOk, ret, count, limit)
       IN  /\ results' = r.v
           /\ qrRet' = [op |-> "Select", err |-> r.err, what |-> r.what, reqId |-> r.reqId,
                        id |-> r.id, sent |-> r.sent]
    /\ UNCHANGED <<nsVars, rpcVars, httpVars, storeVars, storageVars, connVars, sysVars,
                   cloneVars, ftVars, authVars, memVars, mpVars>>

RpcFetchResults ==
  \E reqId \in ReqIds, offset \in Offsets, limit \in Limits :
    LET r == fetchResults(results, reqId, [offset |-> offset, limit |-> limit])
    IN  /\ results' = r.v
        /\ qrRet' = [op |-> "FetchResults", err |-> r.err, what |-> r.what, reqId |-> r.reqId,
                     id |-> reqId, sent |-> r.sent]
        /\ UNCHANGED <<nsVars, rpcVars, httpVars, storeVars, storageVars, connVars, sysVars,
                       cloneVars, ftVars, authVars, memVars, mpVars>>

RpcCloseResults ==
  \E reqId \in ReqIds :
    LET r == freeQueryResults(results, reqId)
    IN  /\ results' = r.v
        /\ qrRet' = [op |-> "CloseResults", err |-> r.err, what |-> r.what, reqId |-> -1,
                     id |-> reqId, sent |-> 0]
        /\ UNCHANGED <<nsVars, rpcVars, httpVars, storeVars, storageVars, connVars, sysVars,
                       cloneVars, ftVars, authVars, memVars, mpVars>>

QrNext ==
  \/ RpcSelect
  \/ RpcFetchResults
  \/ RpcCloseResults

SpecQr == Init /\ [][QrNext]_vars

\* ------------------------------------------ IndexStore<key_string> memStat_
\* key_string::heap_size(): what the string object allocated for its
\* characters; two objects holding equal characters may differ in it
heap_size(key) == key.obj

\* the part of an instance the container operators work on
AsStore(M) == [T |-> "key_string", opts |-> PlainOpts, str_map |-> M.str_map, idx_data |-> <<>>,
               expiredStrings_ |-> M.expiredStrings_, ret |-> NullKey, err |-> "errOK"]
WithStore(M, S) == [M EXCEPT !.str_map = S.str_map, !.expiredStrings_ = S.expiredStrings_]

\* IndexStore<key_string>::Upsert with its memStat_ line: a new entry adds
\* the map entry, the string object and the string's heap
UpsertMemStat(M, key, id) ==
  LET S == IndexStoreUpsert(AsStore(M), key, id)
      isNew == key.type # "KeyValueNull" /\ ~strFind(M.str_map, key)
  IN  [WithStore(M, S) EXCEPT
         !.dataSize = IF isNew
                      THEN @ + sizeofMapValue + sizeofKeyString + heap_size(S.str_map[key.val].key)
                      ELSE @]

\* IndexStore<key_string>::Delete with its memStat_ lines: an entry whose
\* count reaches 0 moves from the map to expiredStrings_
DeleteMemStat(M, key, id) ==
  LET S == IndexStoreDelete(AsStore(M), key, id)
      expires == key.type # "KeyValueNull" /\ strFind(M.str_map, key) /\ ~strFind(S.str_map, key)
  IN  IF expires
      THEN [WithStore(M, S) EXCEPT
              !.dataSize = (@ - sizeofMapValue) + sizeofVectorValue,
              !.expiredStringsMemStat_ = @ + sizeofKeyString + heap_size(M.str_map[key.val].key)]
      ELSE WithStore(M, S)

\* IndexStore<key_string>::RemoveExpiredStrings
RemoveExpiredStringsMemStat(M) ==
  [WithStore(M, RemoveExpiredStrings(AsStore(M))) EXCEPT
     !.dataSize = @ - (sizeofVectorValue * Len(M.expiredStrings_) + M.expiredStringsMemStat_),
     !.expiredStringsMemStat_ = 0]

\* IndexStore<key_string>::IndexStore(const IndexStore &) copies str_map and
\* memStat_; expiredStrings_ and expiredStringsMemStat_ get their defaults.
\* Clone then swaps the two expiredStrings_
CloneMemStat(M) ==
  LET r == IndexStoreClone(AsStore(M))
  IN  [ret |-> [WithStore(M, r.ret) EXCEPT !.expiredStringsMemStat_ = 0],
       src |-> WithStore(M, r.src)]

MemUpsert ==
  \E who \in Instances, key \in StoreKeys, id \in StoreIds :
    /\ memInst[who].alive
    /\ SumCounts(memInst[who].str_map, DOMAIN memInst[who].str_map) < MaxRefs
    /\ memInst' = [memInst EXCEPT ![who] = UpsertMemStat(@, key, id)]
    /\ memRet' = [memRet EXCEPT !.op = "Upsert", !.who = who]
    /\ UNCHANGED <<nsVars, rpcVars, httpVars, storeVars, storageVars, connVars, sysVars,
                   cloneVars, ftVars, authVars, qrVars, mpVars>>

MemDelete ==
  \E who \in Instances, key \in StoreKeys, id \in StoreIds :
    /\ memInst[who].alive
    /\ Len(memInst[who].expiredStrings_) < MaxExpired
    /\ memInst' = [memInst EXCEPT ![who] = DeleteMemStat(@, key, id)]
    /\ memRet' = [memRet EXCEPT !.op = "Delete", !.who = who]
    /\ UNCHANGED <<nsVars, rpcVars, httpVars, storeVars, storageVars, connVars, sysVars,
                   cloneVars, ftVars, authVars, qrVars, mpVars>>

MemRemoveExpiredStrings ==
  \E who \in Instances :
    /\ memInst[who].alive
    /\ memInst' = [memInst EXCEPT ![who] = RemoveExpiredStringsMemStat(@)]
    /\ memRet' = [memRet EXCEPT !.op = "RemoveExpiredStrings", !.who = who]
    /\ UNCHANGED <<nsVars, rpcVars, httpVars, storeVars, storageVars, connVars, sysVars,
                   cloneVars, ftVars, authVars, qrVars, mpVars>>

\* the namespace copies the index; one copy at a time
MemClone ==
  /\ ~memInst["clone"].alive
  /\ memRet.clones < MaxClones
  /\ LET r == CloneMemStat(memInst["source"])
     IN  memInst' = [source |-> r.src, clone |-> r.ret]
  /\ memRet' = [op |-> "Clone", who |-> "source", clones |-> memRet.clones + 1]
  /\ UNCHANGED <<nsVars, rpcVars, httpVars, storeVars, storageVars, connVars, sysVars,
                 cloneVars, ftVars, authVars, qrVars, mpVars>>

\* the copy is destroyed once its strings are released (~IndexStore asserts it)
MemCloneDestroy ==
  /\ memInst["clone"].alive
  /\ memInst["clone"].expiredStrings_ = <<>>
  /\ memInst' = [memInst EXCEPT !["clone"] = NoMemInst]
  /\ memRet' = [memRet EXCEPT !.op = "Destroy", !.who = "clone"]
  /\ UNCHANGED <<nsVars, rpcVars, httpVars, storeVars, storageVars, connVars, sysVars,
                 cloneVars, ftVars, authVars, qrVars, mpVars>>

MemNext ==
  \/ MemUpsert
  \/ MemDelete
  \/ MemRemoveExpiredStrings
  \/ MemClone
  \/ MemCloneDestroy

SpecMem == Init /\ [][MemNext]_vars

\* ------------------------------------------------- HTTP MsgPack query response
\* static_cast<unsigned>(int) and size_t(unsigned expression)
toUnsigned(n) == n % UIntMod
toSize(n) == n % SizeMod

\* std::stoi on the text of a parameter
stoi(p) == p.n

\* HTTPServer::prepareLimit and prepareOffset: the default when the parameter
\* is absent, else its value with negatives raised to 0
prepareLimit(limitParam, limitDefault) ==
  LET limit == IF limitParam.length # 0
               THEN (IF stoi(limitParam) < 0 THEN 0 ELSE stoi(limitParam))
               ELSE limitDefault
  IN  toUnsigned(limit)
prepareOffset(offsetParam, offsetDefault) ==
  LET offset == IF offsetParam.length # 0
                THEN (IF stoi(offsetParam) < 0 THEN 0 ELSE stoi(offsetParam))
                ELSE offsetDefault
  IN  toUnsigned(offset)

\* the loop of queryResultsMsgPack: i runs from offset while i < res.Count()
\* and i < offset + limit (an unsigned sum)
RECURSIVE serialized(_, _, _)
serialized(i, count, end) ==
  IF i < count /\ i < end THEN <<i>> \o serialized(i + 1, count, end) ELSE <<>>

\* HTTPServer::queryResultsMsgPack: the length written in the header of the
\* items array, min(size_t(limit), size_t(res.Count() - offset)), and the
\* rows the loop serializes
queryResultsMsgPack(count, limit, offset) ==
  LET rest == toSize(count - offset)
  IN  [op |-> "queryResultsMsgPack", limit |-> limit, offset |-> offset, count |-> count,
       declared |-> IF limit < rest THEN limit ELSE rest,
       items |-> serialized(offset, count, toUnsigned(offset + limit))]

\* GET /query with format=msgpack: limit and offset come from the request,
\* the rows from the query
HttpQueryMsgPack ==
  \E limitParam \in Params, offsetParam \in Params, limitDefault \in {0, IntMax},
     count \in 0..MaxRows :
    /\ mpRet' = queryResultsMsgPack(count, prepareLimit(limitParam, limitDefault),
                                    prepareOffset(offsetParam, 0))
    /\ UNCHANGED <<nsVars, rpcVars, httpVars, storeVars, storageVars, connVars, sysVars,
                   cloneVars, ftVars, authVars, qrVars, memVars>>

SpecMsgPack == Init /\ [][HttpQueryMsgPack]_vars

\* ---------------------------------------------------------------- claims
ItemRecs(w) == {i \in DOMAIN w : w[i].type = "WalItemModify"}
LastInit(w) == CHOOSE i \in DOMAIN w :
                 /\ w[i].type = "WalInitTransaction"
                 /\ \A j \in DOMAIN w : w[j].type = "WalInitTransaction" => j <= i

\* C1: a WLock that started after MarkReadOnly completed ends in
\* errNamespaceInvalidated, outside the critical section, with the mutex free
C1_WLockAfterReadOnlyFails ==
  [][\A t \in Threads :
       (pc[t] = "wcheck" /\ roAtStart[t] /\ pc'[t] # "wcheck")
         => /\ res'[t] = "errNamespaceInvalidated"
            /\ pc'[t] = "idle"
            /\ mtxWriter' = NoThread]_vars

C1_Witness ==
  \E t \in Threads, u \in Threads :
     /\ t # u
     /\ res[t] = "errNamespaceInvalidated"
     /\ pc[t] = "idle"
     /\ pc[u] = "reading"

\* C2: every live row is found by a point query on each index with the row's
\* own key, and no index returns a free row id
C2_IndexConsistency ==
  /\ \A f \in Fields : \A r \in LiveIds(items_) :
       r \in SelectKey(indexes_[f], KeyOf(ItemAt(items_, r), f))
  /\ \A f \in Fields : \A k \in DOMAIN indexes_[f] :
       SelectKey(indexes_[f], k) \subseteq LiveIds(items_)

C2_Witness ==
  /\ Len(free_) > 0
  /\ \E r \in LiveIds(items_) : ItemAt(items_, r).val = 2
  /\ Len(wal_) >= 3

\* C3: free_ lists exactly the free slots, each once; free and live ids
\* partition 0..items_.size()-1
C3_FreeListCorrect ==
  LET freeSet == {free_[i] : i \in DOMAIN free_}
      all == 0..(Len(items_) - 1)
  IN /\ \A i \in DOMAIN free_ : \A j \in DOMAIN free_ : i # j => free_[i] # free_[j]
     /\ freeSet = {i \in all : ItemAt(items_, i).free}
     /\ freeSet \cap LiveIds(items_) = {}
     /\ freeSet \cup LiveIds(items_) = all

C3_Witness ==
  /\ Len(items_) = 2
  /\ Len(free_) = 1
  /\ Cardinality(LiveIds(items_)) = 1

\* C4: a step that changes rows or indexes appends one WAL record, and every
\* appended record has an LSN above all LSNs already in the WAL
C4_WalLsnIncreasing ==
  [][/\ (items_' # items_ \/ indexes_' # indexes_) => Len(wal_') = Len(wal_) + 1
     /\ wal_' # wal_ =>
          /\ Len(wal_') = Len(wal_) + 1
          /\ SubSeq(wal_', 1, Len(wal_)) = wal_
          /\ \A i \in DOMAIN wal_ : wal_[i].lsn < wal_'[Len(wal_')].lsn]_vars

C4_Witness ==
  \E t \in Threads, u \in Threads :
     /\ pc[t] = "txsteps"
     /\ pc[u] = "wlock"
     /\ Len(wal_) >= 3
     /\ \A i \in DOMAIN wal_ : \A j \in DOMAIN wal_ : i < j => wal_[i].lsn < wal_[j].lsn

\* C5: CommitTransaction holds the write lock from Init to Commit; when it
\* returns, the steps before the first failing one are applied (the last
\* applied step on each key decides the row), the error is returned iff a
\* step failed, and no step after the failing one left a WAL record
CommitPost(t) ==
  LET steps == call[t].steps
      k == call[t].next
      applied == 1..(k - 1)
      lastOn(p) == CHOOSE i \in applied :
                     steps[i].pk = p /\ \A j \in applied : steps[j].pk = p => j <= i
      frame == {i \in ItemRecs(wal_') : i > LastInit(wal_')}
  IN /\ (res'[t] = "errOK") <=> (k = Len(steps) + 1)
     /\ res'[t] # "errOK" => k \in DOMAIN steps
     /\ Cardinality(frame) <= k - 1
     /\ \A p \in PKs :
          (\E i \in applied : steps[i].pk = p) =>
             IF steps[lastOn(p)].mode = "ModeDelete"
             THEN SelectKey(indexes_'["pk"], p) = {}
             ELSE \E r \in LiveIds(items_') :
                    /\ ItemAt(items_', r) = Payload(p, steps[lastOn(p)].val)
                    /\ SelectKey(indexes_'["pk"], p) = {r}

C5_CommitAppliesPrefix ==
  [][\A t \in Threads :
       /\ pc[t] \in {"txsteps", "txcommit"} => mtxWriter = t
       /\ (pc[t] = "txcommit" /\ pc'[t] = "idle") => CommitPost(t)]_vars

C5_Witness ==
  \E t \in Threads :
     /\ pc[t] = "txcommit"
     /\ res[t] = "errConflict"
     /\ Len(call[t].steps) = 2
     /\ call[t].next = 2
     /\ call[t].steps[1].mode = "ModeInsert"
     /\ SelectKey(indexes_["pk"], call[t].steps[1].pk) # {}

\* C6: the WAL is a sequence of non-transactional records and of frames
\* Init, in-transaction step records, Commit; one frame per commit call, and
\* a frame is open exactly while a thread is inside CommitTransaction
RECURSIVE FrameState(_, _, _)
FrameState(w, i, open) ==
  IF i > Len(w) THEN (IF open THEN "open" ELSE "closed")
  ELSE IF w[i].type = "WalInitTransaction"
       THEN IF open THEN "bad" ELSE FrameState(w, i + 1, TRUE)
  ELSE IF w[i].type = "WalCommitTransaction"
       THEN IF open THEN FrameState(w, i + 1, FALSE) ELSE "bad"
  ELSE IF w[i].inTransaction = open THEN FrameState(w, i + 1, open) ELSE "bad"

CountType(w, ty) == Cardinality({i \in DOMAIN w : w[i].type = ty})

C6_WalTxFraming ==
  LET st == FrameState(wal_, 1, FALSE)
      inCommit == {t \in Threads : pc[t] \in {"txsteps", "txcommit"}}
  IN /\ st # "bad"
     /\ (st = "open") <=> (inCommit # {})
     /\ Cardinality(inCommit) <= 1
     /\ CountType(wal_, "WalCommitTransaction") = txDone
     /\ CountType(wal_, "WalInitTransaction") = txDone + Cardinality(inCommit)

C6_Witness ==
  /\ txDone >= 1
  /\ \E i \in DOMAIN wal_ : wal_[i].type = "WalItemModify" /\ ~wal_[i].inTransaction
  /\ \E i \in DOMAIN wal_ : wal_[i].type = "WalItemModify" /\ wal_[i].inTransaction
  /\ \E t \in Threads : pc[t] = "txsteps"

\* C7: RollbackTx applies none of the staged steps: the call leaves rows,
\* free list, indexes and WAL as they are and frees the slot, and staging
\* the steps before it (StartTransaction, AddTxItem, DeleteQueryTx) did not
\* touch the namespace either
C7_RollbackAppliesNothing ==
  [][/\ rpcRet'.cmd \in {"StartTransaction", "AddTxItem", "DeleteQueryTx", "RollbackTx"}
          => UNCHANGED <<items_, free_, indexes_, wal_, lsnCounter>>
     /\ (rpcRet'.cmd = "RollbackTx" /\ rpcRet'.err = "errOK")
          => \E id \in 0..(Len(txs) - 1) :
               /\ ~IsFree(TxAt(txs, id))
               /\ StagedModes(TxAt(txs, id)) = rpcRet'.staged
               /\ txs' = [txs EXCEPT ![id + 1] = FreeTx]]_vars

C7_Witness ==
  /\ rpcRet.cmd = "RollbackTx"
  /\ rpcRet.err = "errOK"
  /\ rpcRet.staged = {"ModeInsert", "QueryDelete"}
  /\ LiveIds(items_) # {}

\* C8: the slot vector never holds more than kMaxTxCount entries; a
\* successful StartTransaction takes the lowest free slot when there is one
\* and grows the vector only when there is none; with kMaxTxCount active
\* transactions it fails with errForbidden and changes nothing
C8_TxSlotsBounded ==
  [][LET free == {i \in 0..(Len(txs) - 1) : IsFree(TxAt(txs, i))}
         id == rpcRet'.id
     IN /\ Len(txs') <= kMaxTxCount
        /\ (rpcRet'.cmd = "StartTransaction" /\ rpcRet'.err = "errOK") =>
             IF free # {}
             THEN /\ id \in free
                  /\ \A j \in free : id <= j
                  /\ txs' = [txs EXCEPT ![id + 1] = NewTransaction]
             ELSE /\ id = Len(txs)
                  /\ txs' = Append(txs, NewTransaction)
        /\ (rpcRet'.cmd = "StartTransaction" /\ free = {} /\ Len(txs) = kMaxTxCount) =>
             /\ rpcRet'.err = "errForbidden"
             /\ UNCHANGED <<txs, txCount>>]_vars

C8_Witness ==
  /\ rpcRet.cmd = "StartTransaction"
  /\ rpcRet.err = "errForbidden"
  /\ Len(txs) = kMaxTxCount
  /\ \A i \in DOMAIN txs : ~IsFree(txs[i])
  /\ txCount = kMaxTxCount
  /\ Len(wal_) > 0

\* C10: a read takes the sort orders as built only in OptimizationCompleted,
\* and then every sort order is the complete order of the current rows; a
\* step that changes the rows leaves the state NotOptimized, and the state
\* becomes OptimizationCompleted only from OptimizingSortOrders with every
\* sort order current
C10_NoPartialSortOrder ==
  [][/\ SortOrdersBuilt' => \A f \in Fields : sortOrders_'[f] = SortedIds(items_', f)
     /\ items_' # items_ => optimizationState_' = "NotOptimized"
     /\ (optimizationState_' = "OptimizationCompleted" /\ optimizationState_ # "OptimizationCompleted")
          => /\ optimizationState_ = "OptimizingSortOrders"
             /\ UNCHANGED items_
             /\ \A f \in Fields : sortOrders_[f] = SortedIds(items_, f)]_vars

C10_Witness ==
  /\ optPc = "sortorders"
  /\ optimizationState_ = "NotOptimized"
  /\ \E f \in optBuilt : sortOrders_[f] # SortedIds(items_, f)

\* C9: a run of the deadline check erases every transaction whose deadline
\* has passed, rolled back first when its database can still be opened and
\* not rolled back otherwise, and leaves every other transaction and its
\* deadline alone; a transaction that is not accessed any more (neither
\* begun nor looked up by getTx) is eventually gone from txMap_ for good
Access(id) ==
  /\ id \in DOMAIN txMap_'
  /\ id \in DOMAIN txMap_ => txMap_'[id].txDeadline > txMap_[id].txDeadline

C9_ReaperRemovesExpired ==
  /\ [][httpLast'.op = "removeExpiredTx" =>
          \A id \in DOMAIN txMap_ :
             IF txMap_[id].txDeadline <= 0
             THEN /\ id \notin DOMAIN txMap_'
                  /\ httpTx'[id] = IF txMap_[id].dbName \in httpDbs
                                   THEN txRolledBack(httpTx[id])
                                   ELSE httpTx[id]
             ELSE /\ id \in DOMAIN txMap_'
                  /\ txMap_'[id] = txMap_[id]
                  /\ httpTx'[id] = httpTx[id]]_vars
  /\ \A id \in TxIds : <>[][~Access(id)]_vars => <>[](id \notin DOMAIN txMap_)

C9_Witness ==
  /\ httpLast.op = "removeExpiredTx"
  /\ \E id \in TxIds \ DOMAIN txMap_ : httpTx[id].state = "rolledback"
  /\ \E id \in DOMAIN txMap_ : txMap_[id].txDeadline > 0 /\ httpTx[id].steps # <<>>

\* C9 as stated: every expired transaction is rolled back before it is erased
C9_AsStated ==
  [][httpLast'.op = "removeExpiredTx" =>
       \A id \in DOMAIN txMap_ :
          txMap_[id].txDeadline <= 0 =>
             /\ id \notin DOMAIN txMap_'
             /\ httpTx'[id].state = "rolledback"]_vars

\* C11: optimizationState_ changes only to the next value of the enum or,
\* by a step that mutates the rows, back to NotOptimized; a run of the
\* optimizer (Commit) that ends leaves OptimizationCompleted unless such a
\* reset hit it; once mutations stop the state becomes and stays
\* OptimizationCompleted
StateOrd(s) == CHOOSE i \in DOMAIN OptimizationState : OptimizationState[i] = s

C11_StateOrder ==
  /\ [][/\ optimizationState_' # optimizationState_ =>
             \/ /\ StateOrd(optimizationState_') = StateOrd(optimizationState_) + 1
                /\ UNCHANGED <<items_, wal_>>
             \/ /\ optimizationState_' = "NotOptimized"
                /\ wal_' # wal_
        /\ (optPc # "idle" /\ optPc' = "idle") =>
             optimizationState_' \in {"OptimizationCompleted", "NotOptimized"}
        /\ (optPc # "idle" /\ optPc' = "idle" /\ optimizationState_ = "OptimizingSortOrders") =>
             optimizationState_' = "OptimizationCompleted"]_vars
  /\ <>[][wal_' = wal_]_vars => <>[](optimizationState_ = "OptimizationCompleted")

C11_Witness ==
  /\ optimizationState_ = "OptimizationCompleted"
  /\ optPc = "idle"
  /\ Len(wal_) = MaxWal
  /\ Cardinality(LiveIds(items_)) = 2

\* C12: Delete(key, id) raises no error and changes nothing when the key is
\* null or not in the index, and in the generic store it never changes
\* anything; in the key_string store a second Delete(key, id) leaves the
\* state of the first one exactly when the key held at most one reference
\* before the first call, and with two or more references each call takes
\* one reference away
Present(key) == storeT = "key_string" /\ key.type # "KeyValueNull" /\ strFind(str_map, key)

C12_DeleteSilentOnMissing ==
  \A key \in StoreKeys, id \in StoreIds :
    LET once == IndexStoreDelete(St, key, id)
        twice == IndexStoreDelete(once, key, id)
    IN  /\ once.err = "errOK"
        /\ ~Present(key) => once = St
        /\ (Present(key) /\ str_map[key.val].count <= 1) => (once # St /\ twice = once)
        /\ (Present(key) /\ str_map[key.val].count >= 2) =>
             /\ once.str_map = [str_map EXCEPT ![key.val].count = @ - 1]
             /\ once.expiredStrings_ = expiredStrings_
             /\ twice # once

\* a Delete has just taken one of two references of a string
C12_Witness ==
  /\ storeRet.op = "Delete"
  /\ Present(storeRet.key)
  /\ storeRefs[storeRet.key.val] = 1

\* C12 as stated: Delete twice is Delete once, for every state, key and id
C12_AsStated ==
  \A key \in StoreKeys, id \in StoreIds :
    LET once == IndexStoreDelete(St, key, id)
    IN  /\ IndexStoreDelete(once, key, id) = once
        /\ ~Present(key) => once = St

\* C13: in the key_string store every entry of str_map has a count >= 1
\* that equals the Upserts minus the Deletes of its string since the entry
\* was created; the Delete that takes the last reference erases the entry
\* and appends its string to expiredStrings_; no call but
\* RemoveExpiredStrings takes a string out of expiredStrings_, and that call
\* empties it and leaves str_map as it was
IsPrefix(s, t) == Len(s) <= Len(t) /\ SubSeq(t, 1, Len(s)) = s

C13_StrMapRefCounts ==
  /\ [](storeT = "key_string" =>
          /\ DOMAIN storeRefs = DOMAIN str_map
          /\ \A v \in DOMAIN str_map :
               str_map[v].count >= 1 /\ str_map[v].count = storeRefs[v])
  /\ [][storeT = "key_string" =>
          /\ (storeRet'.op = "Delete" /\ Present(storeRet'.key)) =>
               LET v == storeRet'.key.val
               IN  IF str_map[v].count = 1
                   THEN /\ str_map' = strErase(str_map, storeRet'.key)
                        /\ expiredStrings_' = Append(expiredStrings_, str_map[v].key)
                   ELSE /\ v \in DOMAIN str_map'
                        /\ expiredStrings_' = expiredStrings_
          /\ storeRet'.op \in {"Upsert", "Delete", "SelectKey"} =>
               IsPrefix(expiredStrings_, expiredStrings_')
          /\ storeRet'.op = "RemoveExpiredStrings" =>
               expiredStrings_' = <<>> /\ str_map' = str_map]_vars

\* a Delete has moved a string to expiredStrings_ while another stays
C13_Witness ==
  /\ storeT = "key_string"
  /\ storeRet.op = "Delete"
  /\ Len(expiredStrings_) = 1
  /\ DOMAIN str_map # {}

\* C14: in the key_string store Upsert of a string returns the string
\* object str_map holds for that value: an Upsert of a value already there
\* returns the object stored by the first Upsert, whatever object and id the
\* caller passes, keeps the single entry and adds one to its count; an
\* Upsert of a new value adds exactly one entry, with count 1, holding the
\* caller's object
C14_UpsertReturnsStoredKey ==
  [][(storeT = "key_string" /\ storeRet'.op = "Upsert" /\ storeRet'.key.type # "KeyValueNull") =>
       LET key == storeRet'.key
           v == key.val
       IN  /\ storeRet'.ret = str_map'[v].key
           /\ storeRet'.ret.val = v
           /\ expiredStrings_' = expiredStrings_
           /\ IF strFind(str_map, key)
              THEN /\ storeRet'.ret = str_map[v].key
                   /\ str_map' = [str_map EXCEPT ![v].count = @ + 1]
                   /\ str_map'[v].count = storeRefs[v] + 1
              ELSE /\ storeRet'.ret = key
                   /\ DOMAIN str_map' = (DOMAIN str_map) \cup {v}
                   /\ str_map'[v] = [key |-> key, count |-> 1]
                   /\ \A w \in DOMAIN str_map : str_map'[w] = str_map[w]]_vars

\* the second Upsert of a value, passed in another string object, has
\* returned the object of the first
C14_Witness ==
  /\ storeT = "key_string"
  /\ storeRet.op = "Upsert"
  /\ storeRet.key.type # "KeyValueNull"
  /\ str_map[storeRet.key.val].count = 2
  /\ storeRet.ret.obj # storeRet.key.obj

\* C15: SelectKey on a store index that is neither array nor sparse fails
\* with errParams and returns no result for CondEmpty, whatever the keys and
\* the select options, and for CondAny when the select option distinct is
\* not set; CondAny with distinct set returns one comparator
PlainSelect(r) == r.op = "SelectKey" /\ ~opts_.array /\ ~opts_.sparse

C15_SelectKeyErrParams ==
  PlainSelect(storeRet) =>
    /\ storeRet.id = "CondEmpty" => (storeRet.err = "errParams" /\ storeRet.ret = <<>>)
    /\ (storeRet.id = "CondAny" /\ ~storeRet.sopts.distinct) =>
         (storeRet.err = "errParams" /\ storeRet.ret = <<>>)
    /\ (storeRet.id = "CondAny" /\ storeRet.sopts.distinct) =>
         (storeRet.err = "errOK" /\ Len(storeRet.ret) = 1 /\ storeRet.ret[1].distinct)

\* CondAny without distinct has failed on a plain index with rows
C15_Witness ==
  /\ PlainSelect(storeRet)
  /\ storeRet.id = "CondAny"
  /\ ~storeRet.sopts.distinct
  /\ storeRet.err = "errParams"
  /\ storeRet.key # <<>>
  /\ (DOMAIN str_map # {} \/ idx_data # <<>>)

\* C15 as stated: CondEmpty and CondAny fail for every select option
C15_AsStated ==
  (PlainSelect(storeRet) /\ storeRet.id \in {"CondEmpty", "CondAny"}) =>
    (storeRet.err = "errParams" /\ storeRet.ret = <<>>)

StaleCJson(c) == c.format = "FormatCJson" /\ c.stateToken # NsToken

C17_StaleTokenRejected ==
  /\ [](/\ \A c \in ModifyItemCalls :
             (StaleCJson(c) /\ c.st = "errOK") =>
               LET r == RPCServerModifyItem(NsD, c)
               IN  r.err = "errStateInvalidated" /\ r.decodes = 0 /\ r.D = NsD
        /\ \A c \in AddTxItemCalls, id \in 0..(Len(txs) - 1) :
             (StaleCJson(c) /\ c.st[1] = "errOK" /\ validTx(txs, id)) =>
               LET r == AddTxItem(TxAt(txs, id), c.format, c.stateToken, NsToken, c.st, c.dec)
               IN  r.err = "errStateInvalidated" /\ r.decodes = 0 /\ r.tr = TxAt(txs, id))
  /\ [][rpcRet'.err = "errStateInvalidated" =>
          /\ rpcRet'.cmd \in {"ModifyItem", "AddTxItem"}
          /\ UNCHANGED <<items_, free_, indexes_, wal_, lsnCounter, txs, txCount>>]_vars

\* a call with a stale token has been refused while the namespace has a row
\* and the transaction a staged item
C17_Witness ==
  /\ rpcRet.cmd = "AddTxItem"
  /\ rpcRet.err = "errStateInvalidated"
  /\ LiveIds(items_) # {}
  /\ \E id \in 0..(Len(txs) - 1) : validTx(txs, id) /\ Len(TxAt(txs, id).steps) = 1

\* C18: AddTxItem takes a fresh item from the namespace and decodes again
\* exactly when the first decode answered errTagsMissmatch, and never a
\* second time; it stages the item exactly when it returns errOK, which it
\* does only if the last decode it ran succeeded; when it returns an error
\* the staged steps are as before
C18_TagsMismatchRetriedOnce ==
  /\ [](\A c \in AddTxItemCalls, id \in 0..(Len(txs) - 1) :
          validTx(txs, id) =>
            LET tr == TxAt(txs, id)
                r == AddTxItem(tr, c.format, c.stateToken, NsToken, c.st, c.dec)
                first == processTxItem(c.format, NewItem(NsToken, c.st[1]), c.stateToken, c.dec[1])
                again == processTxItem(c.format, NewItem(NsToken, c.st[2]), c.stateToken, c.dec[2])
                retry == c.st[1] = "errOK" /\ first.err = "errTagsMissmatch"
            IN  /\ r.fresh = (IF retry THEN 1 ELSE 0)
                /\ r.decodes = (IF c.st[1] # "errOK" THEN 0
                                ELSE IF retry /\ c.st[2] = "errOK" THEN first.decoded + again.decoded
                                ELSE first.decoded)
                /\ r.decodes <= 2
                /\ (retry /\ c.st[2] = "errOK") => r.err = again.err
                /\ (retry /\ c.st[2] # "errOK") => r.err = c.st[2]
                /\ r.err = "errOK" <=> r.tr # tr
                /\ r.err = "errOK" =>
                     /\ r.tr = TxModify(tr, SrvItemStep)
                     /\ IF retry THEN again.err = "errOK" ELSE first.err = "errOK"
                /\ r.err # "errOK" => r.tr = tr)
  /\ [][rpcRet'.cmd = "AddTxItem" =>
          IF rpcRet'.err = "errOK"
          THEN \E id \in 0..(Len(txs) - 1) :
                 txs' = [txs EXCEPT ![id + 1] = TxModify(@, SrvItemStep)]
          ELSE txs' = txs]_vars

\* the retry has answered errTagsMissmatch again and the call has returned
\* it, with one item staged earlier
C18_Witness ==
  /\ rpcRet.cmd = "AddTxItem"
  /\ rpcRet.err = "errTagsMissmatch"
  /\ \E id \in 0..(Len(txs) - 1) : validTx(txs, id) /\ Len(TxAt(txs, id).steps) = 1

\* C19: a client logged in with a version below 2.6.0, or with none, has the
\* filter installed: it returns true for WalInitTransaction,
\* WalCommitTransaction and WalSetSchema records and leaves them as they
\* are, and for every other record it returns false and clears
\* inTransaction, changing nothing else; a client at 2.6.0 or above has no
\* filter and its records keep their inTransaction flag
OldClient(v) == v = <<>> \/ v[1] < 2 \/ (v[1] = 2 /\ v[2] < 6)

C19_OldClientsFilter ==
  /\ [](clientData.logged => (clientData.filter <=> OldClient(clientData.rxVersion)))
  /\ [][pushRet' # pushRet =>
          /\ clientData.logged
          /\ IF OldClient(clientData.rxVersion)
             THEN /\ pushRet'.filtered
                  /\ IF pushRet'.in.type \in {"WalInitTransaction", "WalCommitTransaction",
                                              "WalSetSchema"}
                     THEN pushRet'.ret /\ pushRet'.out = pushRet'.in
                     ELSE /\ ~pushRet'.ret
                          /\ pushRet'.out = [pushRet'.in EXCEPT !.inTransaction = FALSE]
             ELSE ~pushRet'.filtered /\ pushRet'.out = pushRet'.in]_vars

\* an item record of a transaction has reached a client without a version
C19_Witness ==
  /\ clientData.logged
  /\ clientData.rxVersion = <<>>
  /\ pushRet.filtered
  /\ pushRet.in = [type |-> "WalItemModify", inTransaction |-> TRUE]
  /\ ~pushRet.out.inTransaction

\* C20: for each sys-record tag a complete record is written under the
\* version one above the highest one that parses, and only afterwards the
\* version below it goes; once a complete record of a tag was written there
\* is one in storage at every point, a crash between or during the two steps
\* included; a reader returns the record of the highest version that parses
\* and skips the higher ones that do not
GoodVersions(tag) == {v \in SysVersions : Parses(sysStorage[tag][v])}

C20_SysRecordAlwaysLoadable ==
  /\ [](\A tag \in SysTags :
          /\ sysEver[tag] => GoodVersions(tag) # {}
          /\ LET r == loadLatestSysRecord(sysStorage, tag)
             IN  IF GoodVersions(tag) = {} THEN r.err # "errOK"
                 ELSE /\ r.err = "errOK"
                      /\ r.version \in GoodVersions(tag)
                      /\ r.content = sysStorage[tag][r.version]
                      /\ \A v \in SysVersions :
                           v > r.version => ~Parses(sysStorage[tag][v]))
  /\ [][\A tag \in SysTags :
          /\ (sysPc[tag] = "idle" /\ sysPc'[tag] = "written") =>
               LET v == sysRecordsVersions_'[tag]
               IN  /\ \A w \in GoodVersions(tag) : w < v
                   /\ (GoodVersions(tag) # {} => v - 1 \in GoodVersions(tag))
                   /\ (GoodVersions(tag) = {} => v = 1)
                   /\ Parses(sysStorage'[tag][v])
                   /\ \A w \in SysVersions : w # v => sysStorage'[tag][w] = sysStorage[tag][w]
          /\ (\E w \in SysVersions : Parses(sysStorage[tag][w]) /\ sysStorage'[tag][w] = "none") =>
               (sysPc[tag] = "written" /\ sysRecordsVersions_[tag] \in GoodVersions(tag)
                  /\ Parses(sysStorage'[tag][sysRecordsVersions_[tag]]))]_vars

\* a reader has skipped a record that does not parse and loaded the one
\* below it
C20_Witness ==
  /\ sysLoaded.tag = "schema"
  /\ sysLoaded.err = "errOK"
  /\ sysLoaded.version = 2
  /\ sysStorage["schema"][3] = "torn"
  /\ sysStorage["schema"][1] = "none"

\* C21: Clone() of an IndexStore<key_string> gives the clone the source's
\* str_map and idx_data and the strings that waited in the source's
\* expiredStrings_, and leaves the source's expiredStrings_ empty, so each of
\* those strings is in the clone's list only; a string the source expires
\* afterwards goes to the source's list, not the clone's, and the source's
\* RemoveExpiredStrings releases it
C21_CloneTakesExpiredStrings ==
  [][/\ (storeT = "key_string" /\ storeRet'.op = "Clone" /\ ~cloneSt.alive) =>
          /\ cloneSt'.alive
          /\ cloneSt'.str_map = str_map
          /\ cloneSt'.idx_data = idx_data
          /\ cloneSt'.expiredStrings_ = expiredStrings_
          /\ expiredStrings_' = <<>>
          /\ str_map' = str_map
          /\ idx_data' = idx_data
     /\ (storeT = "key_string" /\ cloneSt.alive /\ expiredStrings_' # expiredStrings_) =>
          /\ cloneSt' = cloneSt
          /\ \/ IsPrefix(expiredStrings_, expiredStrings_')
             \/ storeRet'.op = "RemoveExpiredStrings" /\ expiredStrings_' = <<>>
     /\ (storeT = "key_string" /\ cloneSt.alive /\ cloneSt'.alive
           /\ cloneSt'.expiredStrings_ # cloneSt.expiredStrings_) =>
          expiredStrings_' = expiredStrings_
     /\ (storeT' = "key_string" /\ storeRet'.op = "RemoveExpiredStrings") =>
          expiredStrings_' = <<>>]_vars

\* the clone holds a string the source had expired before the call, and the
\* source has expired another one since
C21_Witness ==
  /\ storeT = "key_string"
  /\ cloneSt.alive
  /\ cloneRet = "Clone"
  /\ cloneSt.expiredStrings_ # <<>>
  /\ expiredStrings_ # <<>>
  /\ storeRet.op = "Delete"

Scaled(proc_, max_proc_) ==
  IF max_proc_ > 100 THEN Frac(proc_ * 100, max_proc_) ELSE Frac(proc_, 1)
Passing(data, max_proc_, minOkProc) ==
  {i \in 1..Len(data) : ~FracLess(Scaled(data[i].proc_, max_proc_), minOkProc)}

C22_FuzzyScoresScaledAndFiltered ==
  LET data == ftRet.data
      pass == Passing(data, ftRet.max_proc_, ftRet.minOkProc)
  IN  /\ {ftRet.mergedIds[k] : k \in 1..Len(ftRet.mergedIds)} =
           UNION {{vdocs_[data[i].id_][k] : k \in 1..Len(vdocs_[data[i].id_])} : i \in pass}
      /\ Len(ftRet.ranks) = Len(ftRet.mergedIds)
      /\ \A k \in 1..Len(ftRet.ranks) :
           /\ ftRet.ranks[k].id = ftRet.mergedIds[k]
           /\ \E i \in pass :
                /\ \E j \in 1..Len(vdocs_[data[i].id_]) : vdocs_[data[i].id_][j] = ftRet.ranks[k].id
                /\ FracEq(ftRet.ranks[k].proc, Scaled(data[i].proc_, ftRet.max_proc_))
                /\ (ftRet.max_proc_ > 100 /\ data[i].proc_ = ftRet.max_proc_) =>
                     FracEq(ftRet.ranks[k].proc, Frac(100, 1))
                /\ ftRet.max_proc_ <= 100 => FracEq(ftRet.ranks[k].proc, Frac(data[i].proc_, 1))

\* the greatest score was above 100: one candidate was scaled to 100 and
\* returned, the other fell below the threshold after scaling and was dropped
C22_Witness ==
  /\ Len(ftRet.data) = 2
  /\ ftRet.max_proc_ = 240
  /\ ftRet.minOkProc = 50
  /\ ftRet.data[1].proc_ = 60
  /\ ftRet.mergedIds # <<>>
  /\ Len(ftRet.mergedIds) < 3

\* C23: through the HTTP transaction endpoints a query is staged only as an
\* UPDATE or DELETE step and only when it has no merged and no joined
\* subqueries; a SELECT or TRUNCATE query, and a query with merges or joins,
\* ends with an error status and leaves the staged steps as they were
QueryStepsOf(tx) == {i \in DOMAIN tx.steps : tx.steps[i].mode \notin Modes}

C23_OnlyUpdateDeleteQueriesStaged ==
  /\ [](\A id \in TxIds, q \in HttpQueries :
          LET tx == httpTx[id]
              sql == GetSQLQueryTx(tx, q)
              del == DeleteQueryTx(tx, q)
              plain == ~q.mergeQueries_ /\ ~q.joinQueries_
          IN  /\ \A i \in QueryStepsOf(tx) : tx.steps[i].mode \in QueryModes
              /\ IF plain /\ q.type_ \in QueryModes
                 THEN /\ sql.status = "errOK"
                      /\ sql.tx.steps = Append(tx.steps, QueryStep(q))
                 ELSE /\ sql.status # "errOK"
                      /\ sql.tx = tx
              /\ IF plain
                 THEN /\ del.status = "errOK"
                      /\ Len(del.tx.steps) = Len(tx.steps) + 1
                      /\ del.tx.steps[Len(del.tx.steps)].mode = "QueryDelete"
                 ELSE /\ del.status # "errOK"
                      /\ del.tx = tx)
  /\ [][/\ httpLast'.op \in {"modifyQueryTx", "GetSQLQueryTx"} /\ httpLast'.status # "errOK"
          => httpTx' = httpTx
        /\ \A id \in TxIds :
             (\E i \in QueryStepsOf(httpTx'[id]) : i \notin QueryStepsOf(httpTx[id])) =>
               /\ httpLast' = Status("modifyQueryTx", "errOK")
               /\ \A i \in QueryStepsOf(httpTx'[id]) : httpTx'[id].steps[i].mode \in QueryModes]_vars

\* an UPDATE query is staged in a transaction, and the last request, a query
\* with subqueries, was refused
C23_Witness ==
  /\ \E id \in DOMAIN txMap_ :
       /\ httpTx[id].state = "active"
       /\ \E i \in DOMAIN httpTx[id].steps : httpTx[id].steps[i].mode = "QueryUpdate"
  /\ httpLast = Status("modifyQueryTx", "StatusBadRequest")

\* C24: a successful getTx sets the transaction's idle deadline to
\* now + txIdleTimeout_ and changes nothing else; getTx with an unknown tx id
\* fails with errNotFound, and with a database name that differs from the
\* transaction's in more than the case of its letters with errLogic, both
\* leaving txMap_ and every deadline as they were; removeTx with an unknown
\* id or such a database name fails with errNotFound and removes nothing.
\* Names are compared with iequals: a name that differs only in case is
\* accepted.
C24_GetTxRefreshesOrFails ==
  /\ [](\A txId \in TxIds, dbName \in DbSpellings :
          LET g == getTx(txMap_, dbName, txId)
              r == removeTx(txMap_, dbName, txId)
          IN  IF txId \notin DOMAIN txMap_
              THEN /\ g.err = "errNotFound" /\ g.map = txMap_
                   /\ r.err = "errNotFound" /\ r.map = txMap_
              ELSE IF ~iequals(txMap_[txId].dbName, dbName)
              THEN /\ g.err = "errLogic" /\ g.map = txMap_
                   /\ r.err = "errNotFound" /\ r.map = txMap_
              ELSE /\ g.err = "errOK"
                   /\ DOMAIN g.map = DOMAIN txMap_
                   /\ g.map[txId].txDeadline = txIdleTimeout_
                   /\ g.map[txId].dbName = txMap_[txId].dbName
                   /\ \A o \in DOMAIN txMap_ \ {txId} : g.map[o] = txMap_[o]
                   /\ r.err = "errOK"
                   /\ DOMAIN r.map = DOMAIN txMap_ \ {txId})
  /\ [][httpLast'.op = "getTx" =>
          IF httpLast'.status = "errOK"
          THEN \E h \in Handlers :
                 /\ hpc[h] = "idle" /\ hpc'[h] # "idle"
                 /\ hreq'[h].txId \in DOMAIN txMap_
                 /\ txMap_'[hreq'[h].txId].txDeadline = txIdleTimeout_
                 /\ \A o \in DOMAIN txMap_ \ {hreq'[h].txId} : txMap_'[o] = txMap_[o]
          ELSE /\ httpLast'.status \in {"errNotFound", "errLogic"}
               /\ txMap_' = txMap_
               /\ hpc' = hpc]_vars

\* a lookup under another database's name has just failed with errLogic on a
\* transaction whose deadline had partly run down
C24_Witness ==
  /\ httpLast = Status("getTx", "errLogic")
  /\ \E id \in DOMAIN txMap_ : txMap_[id].txDeadline < txIdleTimeout_ /\ txMap_[id].txDeadline > 0

\* the claim as stated: every lookup under a name other than the one the
\* transaction was begun with fails with errLogic
C24_AsStated ==
  \A txId \in DOMAIN txMap_, dbName \in DbSpellings :
    dbName # txMap_[txId].dbName => getTx(txMap_, dbName, txId).err = "errLogic"

\* C25: on an RPC connection a command other than Login and Ping reaches its
\* handler only when a Login has set the client data; without client data
\* CheckAuth answers errForbidden and the handler is not called, whatever the
\* client sent before
C25_NoDispatchBeforeLogin ==
  /\ \A cmd \in Cmds \ {"kCmdLogin", "kCmdPing"} :
       ~clientData.logged => CheckAuth(clientData, cmd) = "errForbidden"
  /\ (callRet.cmd \in Cmds \ {"kCmdLogin", "kCmdPing"} /\ ~callRet.logged) =>
       (callRet.err = "errForbidden" /\ ~callRet.dispatched)
  /\ callRet.dispatched => (callRet.logged \/ callRet.cmd = "kCmdPing")

\* after a Login that failed, a ModifyItem was refused
C25_Witness ==
  /\ loginRet = "errForbidden"
  /\ ~clientData.logged
  /\ callRet.cmd = "kCmdModifyItem"
  /\ callRet.err = "errForbidden"
  /\ ~callRet.dispatched

\* C26: in RPC ModifyItem with a positive execTimeout the timeout given to
\* the Insert, Update, Upsert or Delete call is execTimeout minus the time
\* spent since the handler began, and so never more than execTimeout; when
\* nothing remains the handler returns errCanceled and changes nothing
C26_TimeoutIsWhatRemains ==
  \A c \in ModifyItemCalls :
    c.timeout[1] > 0 =>
      LET r == RPCServerModifyItem(NsD, c)
          remains == c.timeout[1] - c.timeout[2]
      IN  /\ remains <= 0 => (r.err = "errCanceled" /\ r.D = NsD /\ r.tmo = -1)
          /\ r.tmo # -1 => (r.tmo = remains /\ r.tmo <= c.timeout[1])

\* what one Upsert does to the column of row ids, as C27 states it
ColumnSet(S, key, id) ==
  LET col == IndexStoreUpsert(S, key, id).idx_data
  IN  /\ Len(col) >= id + 1
      /\ Len(col) >= Len(S.idx_data)
      /\ col[id + 1] = key.val
      /\ \A i \in 1..Len(S.idx_data) : i # id + 1 => col[i] = S.idx_data[i]
      /\ \A key2 \in StoreKeys \ {NullKey} :
           LET col2 == IndexStoreUpsert(IndexStoreUpsert(S, key, id), key2, id).idx_data
           IN  /\ col2[id + 1] = key2.val
               /\ Len(col2) = Len(col)
               /\ \A i \in 1..Len(col) : i # id + 1 => col2[i] = col[i]
PlainIndex(S) == ~S.opts.array /\ ~S.opts.dense /\ ~S.opts.sparse
GenericT(S) == S.T \notin {"key_string", "PayloadValue"}

\* C27 (amended): for a store index of the generic instantiation (neither
\* key_string nor PayloadValue) that is not array, dense or sparse, Upsert of
\* a non-null key makes idx_data[id] the key, grows idx_data to at least
\* id + 1 entries and never shrinks it, leaves every other row as it was, and
\* a second Upsert for the same id replaces the value; for array, dense or
\* sparse options, a null key, or the key_string and PayloadValue
\* specialisations, idx_data is unchanged
C27_UpsertSetsRowOfGenericStore ==
  \A key \in StoreKeys, id \in StoreIds :
    IF GenericT(St) /\ PlainIndex(St) /\ key.type # "KeyValueNull"
    THEN ColumnSet(St, key, id)
    ELSE IndexStoreUpsert(St, key, id).idx_data = idx_data

\* C27 witness: a plain generic index after Upserts for row 0 and row 1
C27_Witness ==
  /\ storeRet.op = "Upsert"
  /\ storeT = "int"
  /\ opts_ = PlainOpts
  /\ Len(idx_data) = 2
  /\ idx_data[1] = "a"
  /\ idx_data[2] = "b"

\* C27 as stated: every store index that is not array, dense or sparse has
\* idx_data[id] set by Upsert of a non-null key
C27_AsStated ==
  \A key \in StoreKeys, id \in StoreIds :
    IF PlainIndex(St) /\ key.type # "KeyValueNull"
    THEN ColumnSet(St, key, id)
    ELSE IndexStoreUpsert(St, key, id).idx_data = idx_data

C30_CommitRemovesOnSuccessOnly ==
  [][\A h \in Handlers :
       LET id == hreq[h].txId
           failed == CommitTransaction(NsD, httpTx[id].steps).err # "errOK"
       IN  /\ (hpc[h] = "idle" /\ hpc'[h] \in {"commit", "rollback"})
                => /\ hreq'[h].txId \in DOMAIN txMap_'
                   /\ txMap_'[hreq'[h].txId].txDeadline = txIdleTimeout_
           /\ (hpc[h] = "commit" /\ hpc'[h] = "idle")
                => /\ hreq[h].dbName = TrackedDb
                        => (failed <=> httpLast'.status = "StatusInternalServerError")
                   /\ IF httpLast'.status = "StatusInternalServerError"
                      THEN /\ txMap_' = txMap_
                           /\ httpTx' = httpTx
                      ELSE /\ txMap_' = mapErase(txMap_, {id})
                           /\ httpTx'[id] = txCommitted(httpTx[id])
           /\ (hpc[h] = "rollback" /\ hpc'[h] = "idle")
                => /\ txMap_' = mapErase(txMap_, {id})
                   /\ httpTx'[id] = txRolledBack(httpTx[id])]_vars

\* C30 witness: the commit of the only transaction ever begun has failed and
\* the transaction is still registered, active, with the deadline its getTx
\* set
C30_Witness ==
  /\ httpLast = Status("CommitTx", "StatusInternalServerError")
  /\ \E id \in TxIds :
       /\ DOMAIN txMap_ = {id}
       /\ \A other \in TxIds \ {id} : httpTx[other] = NoTx
       /\ txMap_[id].txDeadline = txIdleTimeout_
       /\ httpTx[id].state = "active"
       /\ httpTx[id].steps # <<>>

\* the slots of the client's txs vector that hold a transaction
UsedSlots(v) == {i \in DOMAIN v : ~IsFree(v[i])}

\* C31: after any sequence of StartTransaction, AddTxItem, DeleteQueryTx,
\* CommitTx and RollbackTx, successful or failing, txStats->txCount is the
\* number of non-free slots of the client's txs vector, and so is never
\* negative
C31_TxCountIsUsedSlots ==
  /\ txCount = Cardinality(UsedSlots(txs))
  /\ txCount >= 0

\* C31 witness: a commit that failed has freed slot 0 while slot 1 is taken
C31_Witness ==
  /\ rpcRet.cmd = "CommitTx"
  /\ rpcRet.err \notin {"errOK", "errLogic", "errNetwork"}
  /\ Len(txs) = 2
  /\ UsedSlots(txs) = {2}
  /\ txCount = 1

\* C32: the reaper never rolls back or removes a transaction while a request
\* handler that obtained it through getTx is still staging into it or
\* committing it: a transaction a handler is using is registered in txMap_
\* and has not been rolled back
C32_HeldTxNeverReaped ==
  \A h \in Handlers :
    hpc[h] \in {"items", "query", "commit"} =>
      /\ hreq[h].txId \in DOMAIN txMap_
      /\ httpTx[hreq[h].txId].state = "active"

\* the positions of a thread inside a critical section entered through WLock
InWriteCS == {"cs", "txsteps", "txcommit"}

\* C33 (amended): while the read-only flag is set no thread enters a
\* write-lock critical section through WLock: a WLock that checks the flag
\* after MarkReadOnly is refused with errNamespaceInvalidated and leaves the
\* mutex free; a mutation whose WLock passed the check before MarkReadOnly
\* stays in its critical section and completes after the flag is set
C33_NoEntryWhenReadOnly ==
  [][\A t \in Threads :
       /\ (pc[t] \notin InWriteCS /\ pc'[t] \in InWriteCS) => (~readonly_ /\ pc[t] = "wcheck")
       /\ (pc[t] = "wcheck" /\ readonly_ /\ pc'[t] # "wcheck")
            => /\ res'[t] = "errNamespaceInvalidated"
               /\ pc'[t] = "idle"
               /\ mtxWriter' # t
       /\ (pc[t] \in InWriteCS /\ readonly_' # readonly_)
            => (pc'[t] = pc[t] /\ mtxWriter' = t /\ UNCHANGED nsData)
       /\ (pc[t] \in InWriteCS /\ pc'[t] = "idle")
            => res'[t] # "errNamespaceInvalidated"]_vars

\* C33 witness: the flag is set while one thread, which passed the check
\* earlier, is committing a transaction, and another thread that called
\* WLock after MarkReadOnly waits for the mutex
C33_Witness ==
  \E t \in Threads, u \in Threads :
     /\ readonly_
     /\ pc[u] = "txcommit"
     /\ pc[t] = "wlock"
     /\ roAtStart[t]

\* C33 as stated: whenever the read-only flag is set no thread is inside a
\* critical section entered through WLock
C33_AsStated ==
  readonly_ => \A t \in Threads : pc[t] \notin InWriteCS

\* the statuses a Login that was not refused as 'Already logged in' fails with
LoginFailures == {"errForbidden", "errNotFound"}

\* C34: a Login on a connection without client data that returns a non-OK
\* status leaves the connection without client data; after it other commands
\* are rejected with errForbidden and a repeated Login is not rejected with
\* errParams ('Already logged in')
C34_FailedLoginLeavesNoClientData ==
  [][/\ (~clientData.logged /\ loginRet' \in LoginFailures) => ~clientData'.logged
     /\ (loginRet \in LoginFailures /\ callRet' # callRet /\ callRet'.cmd # "kCmdPing")
          => callRet'.err = "errForbidden"
     /\ loginRet \in LoginFailures => loginRet' # "errParams"]_vars

\* the request ids of the slots in use
UsedIds(v) == {i - 1 : i \in {j \in DOMAIN v : v[j].used}}

\* C35: an RPC client never holds more than kMaxConcurentQueries
\* query-result slots: after any sequence of Select, FetchResults and
\* CloseResults the results vector has at most kMaxConcurentQueries entries,
\* and a Select that would need one more fails with errLogic ('Too many
\* paralell queries') without allocating a slot
C35_ResultSlotsBounded ==
  /\ Len(results) <= kMaxConcurentQueries
  /\ \A ret \in SelectRets, count \in 0..MaxCount, limit \in Limits :
       (Len(results) >= kMaxConcurentQueries /\ firstFreeSlot(results) < 0)
         => LET r == Select(results, TRUE, ret, count, limit)
            IN  /\ r.err = "errLogic"
                /\ r.what = "Too many paralell queries"
                /\ r.v = results

\* C36: FetchResults with a request id that is not open (never allocated,
\* closed by CloseResults, or closed after the last batch) fails with
\* errLogic ('Invalid query id'), returns no rows and changes no slot
C36_FetchOfClosedIdFails ==
  [][(qrRet'.op = "FetchResults" /\ qrRet'.id \notin UsedIds(results))
       => /\ qrRet'.err = "errLogic"
          /\ qrRet'.what = "Invalid query id"
          /\ qrRet'.sent = 0
          /\ results' = results]_vars

\* a FetchResults of a request id inside the vector was answered errOK with
\* no rows: only a free slot holds a QueryResults that has no rows left to send
C36_Witness ==
  /\ qrRet.op = "FetchResults"
  /\ qrRet.err = "errOK"
  /\ qrRet.id >= 0
  /\ qrRet.sent = 0

\* C37: a Select whose query fails leaves the set of slots in use as it was;
\* a successful one leaves its slot in use exactly when the request id it
\* returns is >= 0, and then that id is the slot's, and it returns -1 with
\* the slot freed exactly when every row of the result went out in the reply
C37_SelectSlotAccounting ==
  \A ret \in SelectRets, count \in 0..MaxCount, limit \in Limits :
    LET r == Select(results, TRUE, ret, count, limit)
    IN  /\ (r.what = "Select" /\ r.err # "errOK") => UsedIds(r.v) = UsedIds(results)
        /\ r.err = "errOK"
             => /\ r.reqId \in {-1, r.id}
                /\ r.reqId >= 0 <=> r.id \in UsedIds(r.v)
                /\ UsedIds(r.v) = UsedIds(results) \cup (IF r.reqId >= 0 THEN {r.id} ELSE {})
                /\ r.reqId = -1 <=> r.sent = count
                /\ r.id \notin UsedIds(results)

\* C37 witness: a Select whose query failed has given back slot 1 while slot
\* 0 is in use; the vector kept the entry
C37_Witness ==
  /\ qrRet.op = "Select"
  /\ qrRet.what = "Select"
  /\ qrRet.err = "errParseSQL"
  /\ qrRet.id = 1
  /\ Len(results) = 2
  /\ UsedIds(results) = {0}

\* map entry + string object + string heap, summed over the entries of a map
RECURSIVE EntriesSize(_, _)
EntriesSize(m, ks) ==
  IF ks = {} THEN 0
  ELSE LET k == CHOOSE x \in ks : TRUE
       IN  sizeofMapValue + sizeofKeyString + heap_size(m[k].key) + EntriesSize(m, ks \ {k})

\* C38: when the last call on an IndexStore<key_string>, the source or a
\* clone, was RemoveExpiredStrings, its memStat_.dataSize is the sum over the
\* entries of its str_map of map entry size + string object size + string
\* heap size, and so 0 when str_map is empty
C38_DataSizeIsSumOfEntries ==
  memRet.op = "RemoveExpiredStrings"
    => LET M == memInst[memRet.who]
       IN  M.dataSize = EntriesSize(M.str_map, DOMAIN M.str_map)

\* a string expired before the Clone: RemoveExpiredStrings ran on the source
\* with an empty map and memStat_.dataSize is not 0
C38_Witness ==
  /\ memRet.op = "RemoveExpiredStrings"
  /\ memRet.who = "source"
  /\ memInst["source"].str_map = <<>>
  /\ memInst["source"].dataSize = sizeofVectorValue
  /\ memInst["clone"].alive

\* rows offset .. min(count, offset + limit) - 1 of a result
RowsOf(count, limit, offset) ==
  LET hi == IF count < offset + limit THEN count ELSE offset + limit
  IN  [i \in 1..(IF hi > offset THEN hi - offset ELSE 0) |-> offset + i - 1]

\* C39: in a MsgPack query response the declared length of the items array
\* is the number of items serialized, and these are the rows offset ..
\* min(Count, offset + limit) - 1, for every limit, offset and row count; an
\* offset beyond the row count gives an empty array
C39_DeclaredLengthIsItemsWritten ==
  mpRet.op = "queryResultsMsgPack"
    => /\ mpRet.declared = Len(mpRet.items)
       /\ mpRet.items = RowsOf(mpRet.count, mpRet.limit, mpRet.offset)

\* a response for an offset beyond the rows: no item written and a declared
\* length that is the limit
C39_Witness ==
  /\ mpRet.op = "queryResultsMsgPack"
  /\ mpRet.offset > mpRet.count
  /\ mpRet.items = <<>>
  /\ mpRet.declared = mpRet.limit
  /\ mpRet.limit > 0

====
